---- MODULE Spec2Model ----
(***************************************************************************)
(* Model of the VotingContract election ledger                             *)
(* (contracts/contracts/VotingContract.sol on top of                       *)
(* contracts/contracts/AccessControl.sol).                                 *)
(*                                                                         *)
(* Every external function of the contract is one action.  A call is a     *)
(* transaction: it either commits all of its writes or reverts and leaves  *)
(* the storage and the event log untouched.  For a call f(args) made in a   *)
(* state, fOutcome(args) is its revert reason (OK when it commits) and     *)
(* fEvents(args) the events it appends to the log.                         *)
(***************************************************************************)
EXTENDS Integers, Sequences, FiniteSets, Bags, TLC

\* ------------------------------------------------------------------ bounds
MaxTime == 4
MaxElections == 2
MaxElectionsAdmin == 1
MaxCandidates == 2

\* ------------------------------------------------------------ input domains
Principals == {"owner", "alice", "bob"}
deployer == "owner"

DEFAULT_ADMIN_ROLE == "DEFAULT_ADMIN_ROLE"
ADMIN_ROLE == "ADMIN_ROLE"
VOTER_ROLE == "VOTER_ROLE"
ELECTION_CREATOR_ROLE == "ELECTION_CREATOR_ROLE"
Roles == {DEFAULT_ADMIN_ROLE, ADMIN_ROLE, VOTER_ROLE, ELECTION_CREATOR_ROLE}

\* Ids a caller may name: 0, every id the counters can reach, and one beyond.
ElectionIdSpace == 0..(MaxElections + 1)
CandidateIdSpace == 0..(MaxCandidates + 1)
Times == 1..MaxTime
EndTimes == 1..(MaxTime - 1)

\* Rosters a caller may pass to createElection: empty, a pair and a duplicated
\* id.  Nothing ties them to the catalogue: they may name ids not yet added.
Rosters ==
    { <<>>, <<1, 2>>, <<1, 1>> }

Titles == {"T"}
Descriptions == {"D"}
\* Accounts the role-management calls are applied to.
Voters == {"alice", "bob"}
Creators == {"owner"}
ManagedRoles == {VOTER_ROLE}
ManagedAccounts == {"alice"}

\* Batches a caller may pass to batchRegisterVoters.
Batches == { <<>>, <<"alice", "bob", "alice">> }

CandidateNames == {"", "N"}
CandidateDescriptions == {"", "CD"}

OK == "ok"

\* require(_voters.length <= 100)
MaxBatch == 100

\* --------------------------------------------------------------- the state
VARIABLES
    now,                    \* block.timestamp
    paused,                 \* Pausable._paused
    roles,                  \* AccessControl._roles: role -> set of members
    isVoterRegistered,      \* mapping(address => bool)
    voterRegistrationTime,  \* mapping(address => uint256)
    electionIds,            \* Counters.Counter _electionIds
    candidateIds,           \* Counters.Counter _candidateIds
    elections,              \* mapping(uint256 => Election)
    candidates,             \* mapping(uint256 => Candidate)
    voterProfiles           \* mapping(address => VoterProfile)

\* The storage of the simple VotingSystem contract (VotingSystem.sol), a
\* deployment of its own, and the VoteCast events it has emitted.
VARIABLES
    VS_paused,              \* Pausable._paused
    VS_voters,              \* mapping(address => Voter) voters
    VS_candidates,          \* mapping(uint256 => Candidate) candidates
    VS_elections,           \* mapping(uint256 => Election) elections
    VS_candidatesCount,     \* uint256 candidatesCount
    VS_electionsCount,      \* uint256 electionsCount
    VS_totalVotes,          \* uint256 totalVotes
    VS_logs                 \* bag of the VoteCast events emitted

votingSystem ==
    << VS_paused, VS_voters, VS_candidates, VS_elections, VS_candidatesCount,
       VS_electionsCount, VS_totalVotes, VS_logs >>

\* What an observer of VotingContract's event log has seen of ElectionEnded:
\* the pairs of electionId and totalVotes of the events it was shown.
VARIABLE ElectionEndedLog

storage ==
    << paused, roles, isVoterRegistered, voterRegistrationTime, electionIds,
       candidateIds, elections, candidates, voterProfiles >>

vars == << now, storage, votingSystem, ElectionEndedLog >>

\* Zero values of the structs: what a mapping returns for a key never written.
Election ==
    [ id |-> 0, title |-> "", description |-> "", startTime |-> 0,
      endTime |-> 0, isActive |-> FALSE, totalVotes |-> 0,
      candidateIds |-> <<>>,
      hasVoted |-> [p \in Principals |-> FALSE],
      votes |-> [c \in CandidateIdSpace |-> 0],
      creator |-> "", createdAt |-> 0 ]

Candidate ==
    [ id |-> 0, name |-> "", description |-> "", voteCount |-> 0,
      exists |-> FALSE, addedBy |-> "", addedAt |-> 0 ]

VoterProfile ==
    [ totalVotesCast |-> 0,
      electionsVotedIn |-> [e \in ElectionIdSpace |-> FALSE] ]

hasRole(role, account) == account \in roles[role]

\* address(0), and the addresses a call may name.
ZeroAddress == "0x0"
Accounts == Principals \cup {ZeroAddress}

\* Zero values of the structs of VotingSystem.sol.
VS_Candidate ==
    [ id |-> 0, name |-> "", party |-> "", voteCount |-> 0, exists |-> FALSE ]

VS_Voter ==
    [ authorized |-> FALSE, voted |-> FALSE, vote |-> 0, exists |-> FALSE ]

VS_Election ==
    [ id |-> 0, title |-> "", description |-> "", startTime |-> 0,
      endTime |-> 0, active |-> FALSE, exists |-> FALSE ]

\* constructor of VotingSystem
VS_constructor ==
    /\ VS_paused = FALSE
    /\ VS_voters = [p \in Principals |-> VS_Voter]
    /\ VS_candidates = [c \in CandidateIdSpace |-> VS_Candidate]
    /\ VS_elections = [e \in ElectionIdSpace |-> VS_Election]
    /\ VS_candidatesCount = 0
    /\ VS_electionsCount = 0
    /\ VS_totalVotes = 0
    /\ VS_logs = EmptyBag

\* -------------------------------------------------------------- constructor
Init ==
    /\ now = 1
    /\ paused = FALSE
    /\ roles = [r \in Roles |->
                  IF r = VOTER_ROLE THEN {} ELSE {deployer}]
    /\ isVoterRegistered = [p \in Accounts |-> FALSE]
    /\ voterRegistrationTime = [p \in Accounts |-> 0]
    /\ electionIds = 0
    /\ candidateIds = 0
    /\ elections = [e \in ElectionIdSpace |-> Election]
    /\ candidates = [c \in CandidateIdSpace |-> Candidate]
    /\ voterProfiles = [p \in Principals |-> VoterProfile]
    /\ ElectionEndedLog = {}
    /\ VS_constructor

\* A reverted transaction: nothing is written, nothing is emitted.
Revert == UNCHANGED vars

\* ------------------------------------------------- AccessControl.sol
onlyAdmin(sender) == hasRole(ADMIN_ROLE, sender)
onlyElectionCreator_OrAdmin(sender) ==
    hasRole(ELECTION_CREATOR_ROLE, sender) \/ hasRole(ADMIN_ROLE, sender)

onlyElectionCreator(sender) == hasRole(ELECTION_CREATOR_ROLE, sender)
onlyVoter(sender) == hasRole(VOTER_ROLE, sender)

\* OpenZeppelin AccessControl._grantRole / _revokeRole on the role table.
grantedRole(rs, role, account) ==
    [rs EXCEPT ![role] = @ \cup {account}]
revokedRole(rs, role, account) ==
    [rs EXCEPT ![role] = @ \ {account}]

VoterRegistered(voter, time) ==
    [ name |-> "VoterRegistered", voter |-> voter, registrationTime |-> time ]
RoleGranted(role, account, sender) ==
    [ name |-> "RoleGranted", role |-> role, account |-> account,
      sender |-> sender ]
RoleRevoked(role, account, sender) ==
    [ name |-> "RoleRevoked", role |-> role, account |-> account,
      sender |-> sender ]

registerVoterOutcome_NoRegisteredCheck(sender, voter) ==
    IF ~onlyAdmin(sender) THEN "AccessControl: Must have admin role"
    ELSE OK

registerVoterOutcome_ByRole(sender, voter) ==
    IF ~onlyAdmin(sender) THEN "AccessControl: Must have admin role"
    ELSE IF hasRole(VOTER_ROLE, voter)
        THEN "AccessControl: Voter already registered"
    ELSE OK

registerVoterOutcome(sender, voter) ==
    IF ~onlyAdmin(sender) THEN "AccessControl: Must have admin role"
    ELSE IF isVoterRegistered[voter]
        THEN "AccessControl: Voter already registered"
    ELSE OK

registerVoterEvents(sender, voter) ==
    IF registerVoterOutcome(sender, voter) # OK THEN <<>>
    ELSE (IF hasRole(VOTER_ROLE, voter) THEN <<>>
          ELSE << RoleGranted(VOTER_ROLE, voter, sender) >>)
         \o << VoterRegistered(voter, now) >>

registerVoter(sender, voter) ==
    IF registerVoterOutcome(sender, voter) = OK
    THEN /\ roles' = grantedRole(roles, VOTER_ROLE, voter)
         /\ isVoterRegistered' = [isVoterRegistered EXCEPT ![voter] = TRUE]
         /\ voterRegistrationTime' =
                [voterRegistrationTime EXCEPT ![voter] = now]
         /\ UNCHANGED << votingSystem, ElectionEndedLog, now, paused, electionIds, candidateIds, elections,
                         candidates, voterProfiles >>
    ELSE Revert

grantElectionCreatorRoleOutcome(sender, account) ==
    IF ~onlyAdmin(sender) THEN "AccessControl: Must have admin role"
    ELSE OK

grantElectionCreatorRole(sender, account) ==
    IF grantElectionCreatorRoleOutcome(sender, account) = OK
    THEN /\ roles' = grantedRole(roles, ELECTION_CREATOR_ROLE, account)
         /\ UNCHANGED << votingSystem, ElectionEndedLog, now, paused, isVoterRegistered,
                         voterRegistrationTime, electionIds, candidateIds,
                         elections, candidates, voterProfiles >>
    ELSE Revert

revokeElectionCreatorRoleOutcome(sender, account) ==
    IF ~onlyAdmin(sender) THEN "AccessControl: Must have admin role"
    ELSE OK

revokeElectionCreatorRole(sender, account) ==
    IF revokeElectionCreatorRoleOutcome(sender, account) = OK
    THEN /\ roles' = revokedRole(roles, ELECTION_CREATOR_ROLE, account)
         /\ UNCHANGED << votingSystem, ElectionEndedLog, now, paused, isVoterRegistered,
                         voterRegistrationTime, electionIds, candidateIds,
                         elections, candidates, voterProfiles >>
    ELSE Revert

isRegisteredVoter(voter) == hasRole(VOTER_ROLE, voter)

\* getVoterRegistrationTime: the revert reason of its require, or the time.
getVoterRegistrationTime(voter) ==
    IF ~isVoterRegistered[voter] THEN "AccessControl: Voter not registered"
    ELSE voterRegistrationTime[voter]

\* Inherited from OpenZeppelin AccessControl.  The contract never calls
\* _setRoleAdmin, so the admin role of every role is DEFAULT_ADMIN_ROLE.
grantRoleOutcome(sender, role, account) ==
    IF ~hasRole(DEFAULT_ADMIN_ROLE, sender)
        THEN "AccessControl: account is missing role"
    ELSE OK

grantRole(sender, role, account) ==
    IF grantRoleOutcome(sender, role, account) = OK
    THEN /\ roles' = grantedRole(roles, role, account)
         /\ UNCHANGED << votingSystem, ElectionEndedLog, now, paused, isVoterRegistered,
                         voterRegistrationTime, electionIds, candidateIds,
                         elections, candidates, voterProfiles >>
    ELSE Revert

revokeRoleOutcome(sender, role, account) ==
    IF ~hasRole(DEFAULT_ADMIN_ROLE, sender)
        THEN "AccessControl: account is missing role"
    ELSE OK

revokeRole(sender, role, account) ==
    IF revokeRoleOutcome(sender, role, account) = OK
    THEN /\ roles' = revokedRole(roles, role, account)
         /\ UNCHANGED << votingSystem, ElectionEndedLog, now, paused, isVoterRegistered,
                         voterRegistrationTime, electionIds, candidateIds,
                         elections, candidates, voterProfiles >>
    ELSE Revert

\* renounceRole(role, account) requires account == msg.sender.
renounceRole(sender, role) ==
    /\ roles' = revokedRole(roles, role, sender)
    /\ UNCHANGED << votingSystem, ElectionEndedLog, now, paused, isVoterRegistered, voterRegistrationTime,
                    electionIds, candidateIds, elections, candidates,
                    voterProfiles >>

\* The loop of batchRegisterVoters, entry by entry: the registration table
\* and the events after the first i entries of voters.
batchRegistered_FirstOnly(voters, i) ==
    IF i = 0 THEN isVoterRegistered
    ELSE [isVoterRegistered EXCEPT ![voters[1]] = TRUE]

RECURSIVE batchRegistered(_, _)
batchRegistered(voters, i) ==
    IF i = 0 THEN isVoterRegistered
    ELSE [batchRegistered(voters, i - 1) EXCEPT ![voters[i]] = TRUE]

batchRegisterVotersOutcome_Below(sender, voters) ==
    IF ~onlyAdmin(sender) THEN "AccessControl: Must have admin role"
    ELSE IF ~(Len(voters) > 0) THEN "AccessControl: Empty voters array"
    ELSE IF ~(Len(voters) < MaxBatch)
        THEN "AccessControl: Too many voters in batch"
    ELSE OK

batchRegisterVotersOutcome(sender, voters) ==
    IF ~onlyAdmin(sender) THEN "AccessControl: Must have admin role"
    ELSE IF ~(Len(voters) > 0) THEN "AccessControl: Empty voters array"
    ELSE IF ~(Len(voters) <= MaxBatch)
        THEN "AccessControl: Too many voters in batch"
    ELSE OK

RECURSIVE batchRegisterVotersEvents(_, _, _)
batchRegisterVotersEvents(sender, voters, i) ==
    IF i = 0 \/ batchRegisterVotersOutcome(sender, voters) # OK THEN <<>>
    ELSE batchRegisterVotersEvents(sender, voters, i - 1) \o
         (IF batchRegistered(voters, i - 1)[voters[i]] THEN <<>>
          ELSE (IF hasRole(VOTER_ROLE, voters[i]) THEN <<>>
                ELSE << RoleGranted(VOTER_ROLE, voters[i], sender) >>)
               \o << VoterRegistered(voters[i], now) >>)

batchRegisterVoters(sender, voters) ==
    LET registered == batchRegistered(voters, Len(voters))
        fresh == { p \in Accounts :
                     registered[p] /\ ~isVoterRegistered[p] }
    IN
    IF batchRegisterVotersOutcome(sender, voters) = OK
    THEN /\ roles' = [roles EXCEPT ![VOTER_ROLE] = @ \cup fresh]
         /\ isVoterRegistered' = registered
         /\ voterRegistrationTime' =
                [p \in Accounts |->
                    IF p \in fresh THEN now ELSE voterRegistrationTime[p]]
         /\ UNCHANGED << votingSystem, ElectionEndedLog, now, paused, electionIds, candidateIds, elections,
                         candidates, voterProfiles >>
    ELSE Revert

\* ------------------------------------------------------------ Pausable
whenNotPaused == ~paused

pauseOutcome(sender) ==
    IF ~onlyAdmin(sender) THEN "AccessControl: Must have admin role"
    ELSE IF ~whenNotPaused THEN "Pausable: paused"
    ELSE OK

pause(sender) ==
    IF pauseOutcome(sender) = OK
    THEN /\ paused' = TRUE
         /\ UNCHANGED << votingSystem, ElectionEndedLog, now, roles, isVoterRegistered,
                         voterRegistrationTime, electionIds, candidateIds,
                         elections, candidates, voterProfiles >>
    ELSE Revert

unpauseOutcome(sender) ==
    IF ~onlyAdmin(sender) THEN "AccessControl: Must have admin role"
    ELSE IF ~paused THEN "Pausable: not paused"
    ELSE OK

unpause(sender) ==
    IF unpauseOutcome(sender) = OK
    THEN /\ paused' = FALSE
         /\ UNCHANGED << votingSystem, ElectionEndedLog, now, roles, isVoterRegistered,
                         voterRegistrationTime, electionIds, candidateIds,
                         elections, candidates, voterProfiles >>
    ELSE Revert

\* ------------------------------------------------- VotingContract.sol
increment_Stuck(counter) == counter

\* Counters.increment followed by Counters.current: the id handed out.
increment(counter) == counter + 1

electionExists(electionId) ==
    ~(electionId = 0 \/ electionId > electionIds)

candidateExists(candidateId) == candidates[candidateId].exists

onlyDuringElection_IgnoresActive(electionId) ==
    LET election == elections[electionId] IN
    IF now < election.startTime THEN "ElectionNotStarted"
    ELSE IF now > election.endTime THEN "ElectionEnded"
    ELSE OK

onlyDuringElection_ExclusiveEnd(electionId) ==
    LET election == elections[electionId] IN
    IF ~election.isActive THEN "ElectionNotActive"
    ELSE IF now < election.startTime THEN "ElectionNotStarted"
    ELSE IF now >= election.endTime THEN "ElectionEnded"
    ELSE OK

onlyDuringElection_WindowFirst(electionId) ==
    LET election == elections[electionId] IN
    IF now < election.startTime THEN "ElectionNotStarted"
    ELSE IF now > election.endTime THEN "ElectionEnded"
    ELSE IF ~election.isActive THEN "ElectionNotActive"
    ELSE OK

\* The revert reason of onlyDuringElection, OK when it lets the call through.
onlyDuringElection(electionId) ==
    LET election == elections[electionId] IN
    IF ~election.isActive THEN "ElectionNotActive"
    ELSE IF now < election.startTime THEN "ElectionNotStarted"
    ELSE IF now > election.endTime THEN "ElectionEnded"
    ELSE OK

hasNotVoted_AnyVoter(sender, electionId) ==
    \A voter \in Principals : ~elections[electionId].hasVoted[voter]

hasNotVoted(sender, electionId) == ~elections[electionId].hasVoted[sender]

\* The linear scan of the roster in castVote.
candidateInElection(electionId, candidateId) ==
    \E i \in 1..Len(elections[electionId].candidateIds) :
        elections[electionId].candidateIds[i] = candidateId

createElectionOutcome_NoPauseCheck(sender, startTime, endTime, roster) ==
    IF ~onlyElectionCreator(sender)
        THEN "AccessControl: Must have election creator role"
    ELSE IF startTime >= endTime THEN "InvalidTimeRange"
    ELSE IF startTime <= now THEN "InvalidTimeRange"
    ELSE OK

createElectionOutcome_StartNow(sender, startTime, endTime, roster) ==
    IF ~onlyElectionCreator(sender)
        THEN "AccessControl: Must have election creator role"
    ELSE IF ~whenNotPaused THEN "Pausable: paused"
    ELSE IF startTime >= endTime THEN "InvalidTimeRange"
    ELSE IF startTime < now THEN "InvalidTimeRange"
    ELSE OK

createElectionOutcome(sender, startTime, endTime, roster) ==
    IF ~onlyElectionCreator(sender)
        THEN "AccessControl: Must have election creator role"
    ELSE IF ~whenNotPaused THEN "Pausable: paused"
    ELSE IF startTime >= endTime THEN "InvalidTimeRange"
    ELSE IF startTime <= now THEN "InvalidTimeRange"
    ELSE OK

ElectionCreated(electionId, title, startTime, endTime, creator) ==
    [ name |-> "ElectionCreated", electionId |-> electionId,
      title |-> title, startTime |-> startTime, endTime |-> endTime,
      creator |-> creator ]

createElectionEvents(sender, title, startTime, endTime, roster) ==
    IF createElectionOutcome(sender, startTime, endTime, roster) # OK
    THEN <<>>
    ELSE << ElectionCreated(increment(electionIds), title, startTime,
                            endTime, sender) >>

createElection(sender, title, description, startTime, endTime, roster) ==
    LET electionId == increment(electionIds) IN
    IF createElectionOutcome(sender, startTime, endTime, roster) = OK
    THEN /\ electionIds' = electionId
         /\ elections' =
                [elections EXCEPT ![electionId] =
                    [@ EXCEPT !.id = electionId,
                              !.title = title,
                              !.description = description,
                              !.startTime = startTime,
                              !.endTime = endTime,
                              !.isActive = TRUE,
                              !.totalVotes = 0,
                              !.candidateIds = roster,
                              !.creator = sender,
                              !.createdAt = now]]
         /\ UNCHANGED << votingSystem, ElectionEndedLog, now, paused, roles, isVoterRegistered,
                         voterRegistrationTime, candidateIds, candidates,
                         voterProfiles >>
    ELSE Revert

addCandidateOutcome_NameOnly(sender, name, description) ==
    IF ~onlyElectionCreator(sender)
        THEN "AccessControl: Must have election creator role"
    ELSE IF ~whenNotPaused THEN "Pausable: paused"
    ELSE IF name = "" THEN "InvalidCandidateData"
    ELSE OK

addCandidateOutcome(sender, name, description) ==
    IF ~onlyElectionCreator(sender)
        THEN "AccessControl: Must have election creator role"
    ELSE IF ~whenNotPaused THEN "Pausable: paused"
    ELSE IF name = "" \/ description = "" THEN "InvalidCandidateData"
    ELSE OK

CandidateAdded(candidateId, name, description, addedBy) ==
    [ name |-> "CandidateAdded", candidateId |-> candidateId,
      candidateName |-> name, description |-> description,
      addedBy |-> addedBy ]

addCandidateEvents(sender, name, description) ==
    IF addCandidateOutcome(sender, name, description) # OK THEN <<>>
    ELSE << CandidateAdded(increment(candidateIds), name, description,
                           sender) >>

addCandidate(sender, name, description) ==
    LET candidateId == increment(candidateIds) IN
    IF addCandidateOutcome(sender, name, description) = OK
    THEN /\ candidateIds' = candidateId
         /\ candidates' =
                [candidates EXCEPT ![candidateId] =
                    [ id |-> candidateId, name |-> name,
                      description |-> description, voteCount |-> 0,
                      exists |-> TRUE, addedBy |-> sender,
                      addedAt |-> now ]]
         /\ UNCHANGED << votingSystem, ElectionEndedLog, now, paused, roles, isVoterRegistered,
                         voterRegistrationTime, electionIds, elections,
                         voterProfiles >>
    ELSE Revert

\* castVote: the modifiers in the order they are listed, then the roster
\* check of the body.
castVoteOutcome_NoOnlyVoter(sender, electionId, candidateId) ==
    IF ~electionExists(electionId) THEN "ElectionNotFound"
    ELSE IF ~candidateExists(candidateId) THEN "CandidateNotFound"
    ELSE IF onlyDuringElection(electionId) # OK
        THEN onlyDuringElection(electionId)
    ELSE IF ~hasNotVoted(sender, electionId) THEN "VoterAlreadyVoted"
    ELSE IF ~whenNotPaused THEN "Pausable: paused"
    ELSE IF ~candidateInElection(electionId, candidateId)
        THEN "VotingContract: Candidate not in this election"
    ELSE OK

castVoteOutcome_NoHasNotVoted(sender, electionId, candidateId) ==
    IF ~onlyVoter(sender) THEN "AccessControl: Must have voter role"
    ELSE IF ~electionExists(electionId) THEN "ElectionNotFound"
    ELSE IF ~candidateExists(candidateId) THEN "CandidateNotFound"
    ELSE IF onlyDuringElection(electionId) # OK
        THEN onlyDuringElection(electionId)
    ELSE IF ~whenNotPaused THEN "Pausable: paused"
    ELSE IF ~candidateInElection(electionId, candidateId)
        THEN "VotingContract: Candidate not in this election"
    ELSE OK

castVoteOutcome_NoRosterCheck(sender, electionId, candidateId) ==
    IF ~onlyVoter(sender) THEN "AccessControl: Must have voter role"
    ELSE IF ~electionExists(electionId) THEN "ElectionNotFound"
    ELSE IF ~candidateExists(candidateId) THEN "CandidateNotFound"
    ELSE IF onlyDuringElection(electionId) # OK
        THEN onlyDuringElection(electionId)
    ELSE IF ~hasNotVoted(sender, electionId) THEN "VoterAlreadyVoted"
    ELSE IF ~whenNotPaused THEN "Pausable: paused"
    ELSE OK

castVoteOutcome_NoPauseCheck(sender, electionId, candidateId) ==
    IF ~onlyVoter(sender) THEN "AccessControl: Must have voter role"
    ELSE IF ~electionExists(electionId) THEN "ElectionNotFound"
    ELSE IF ~candidateExists(candidateId) THEN "CandidateNotFound"
    ELSE IF onlyDuringElection(electionId) # OK
        THEN onlyDuringElection(electionId)
    ELSE IF ~hasNotVoted(sender, electionId) THEN "VoterAlreadyVoted"
    ELSE IF ~candidateInElection(electionId, candidateId)
        THEN "VotingContract: Candidate not in this election"
    ELSE OK

castVoteOutcome_RosterBeforeVoted(sender, electionId, candidateId) ==
    IF ~onlyVoter(sender) THEN "AccessControl: Must have voter role"
    ELSE IF ~electionExists(electionId) THEN "ElectionNotFound"
    ELSE IF onlyDuringElection(electionId) # OK
        THEN onlyDuringElection(electionId)
    ELSE IF ~candidateExists(candidateId) THEN "CandidateNotFound"
    ELSE IF ~candidateInElection(electionId, candidateId)
        THEN "VotingContract: Candidate not in this election"
    ELSE IF ~hasNotVoted(sender, electionId) THEN "VoterAlreadyVoted"
    ELSE IF ~whenNotPaused THEN "Pausable: paused"
    ELSE OK

castVoteOutcome_PauseFirst(sender, electionId, candidateId) ==
    IF ~whenNotPaused THEN "Pausable: paused"
    ELSE IF ~onlyVoter(sender) THEN "AccessControl: Must have voter role"
    ELSE IF ~electionExists(electionId) THEN "ElectionNotFound"
    ELSE IF ~candidateExists(candidateId) THEN "CandidateNotFound"
    ELSE IF onlyDuringElection(electionId) # OK
        THEN onlyDuringElection(electionId)
    ELSE IF ~hasNotVoted(sender, electionId) THEN "VoterAlreadyVoted"
    ELSE IF ~candidateInElection(electionId, candidateId)
        THEN "VotingContract: Candidate not in this election"
    ELSE OK

castVoteOutcome(sender, electionId, candidateId) ==
    IF ~onlyVoter(sender) THEN "AccessControl: Must have voter role"
    ELSE IF ~electionExists(electionId) THEN "ElectionNotFound"
    ELSE IF ~candidateExists(candidateId) THEN "CandidateNotFound"
    ELSE IF onlyDuringElection(electionId) # OK
        THEN onlyDuringElection(electionId)
    ELSE IF ~hasNotVoted(sender, electionId) THEN "VoterAlreadyVoted"
    ELSE IF ~whenNotPaused THEN "Pausable: paused"
    ELSE IF ~candidateInElection(electionId, candidateId)
        THEN "VotingContract: Candidate not in this election"
    ELSE OK

VoteCast(voter, electionId, candidateId, timestamp) ==
    [ name |-> "VoteCast", voter |-> voter, electionId |-> electionId,
      candidateId |-> candidateId, timestamp |-> timestamp ]

castVoteCommits_RosterCheckLate(result) ==
    result \in {OK, "VotingContract: Candidate not in this election"}

\* The transaction keeps its writes and events exactly when nothing reverted.
castVoteCommits(result) == result = OK

castVoteEvents(sender, electionId, candidateId) ==
    IF castVoteCommits(castVoteOutcome(sender, electionId, candidateId))
    THEN << VoteCast(sender, electionId, candidateId, now) >>
    ELSE <<>>

\* "Record the vote": the election table after the three writes to it.
recordVote_NoTotal(sender, electionId, candidateId) ==
    [elections EXCEPT
        ![electionId].hasVoted[sender] = TRUE,
        ![electionId].votes[candidateId] = @ + 1]

recordVote(sender, electionId, candidateId) ==
    [elections EXCEPT
        ![electionId].hasVoted[sender] = TRUE,
        ![electionId].votes[candidateId] = @ + 1,
        ![electionId].totalVotes = @ + 1]

castVote_NoProfileCount(sender, electionId, candidateId) ==
    IF castVoteCommits(castVoteOutcome(sender, electionId, candidateId))
    THEN /\ elections' = recordVote(sender, electionId, candidateId)
         /\ candidates' = [candidates EXCEPT ![candidateId].voteCount = @ + 1]
         /\ voterProfiles' =
                [voterProfiles EXCEPT
                    ![sender].electionsVotedIn[electionId] = TRUE]
         /\ UNCHANGED << votingSystem, ElectionEndedLog, now, paused, roles, isVoterRegistered,
                         voterRegistrationTime, electionIds, candidateIds >>
    ELSE Revert

castVote(sender, electionId, candidateId) ==
    IF castVoteCommits(castVoteOutcome(sender, electionId, candidateId))
    THEN /\ elections' = recordVote(sender, electionId, candidateId)
         /\ candidates' = [candidates EXCEPT ![candidateId].voteCount = @ + 1]
         /\ voterProfiles' =
                [voterProfiles EXCEPT
                    ![sender].totalVotesCast = @ + 1,
                    ![sender].electionsVotedIn[electionId] = TRUE]
         /\ UNCHANGED << votingSystem, ElectionEndedLog, now, paused, roles, isVoterRegistered,
                         voterRegistrationTime, electionIds, candidateIds >>
    ELSE Revert

endElectionOutcome_NoActiveCheck(sender, electionId) ==
    IF ~onlyElectionCreator(sender)
        THEN "AccessControl: Must have election creator role"
    ELSE IF ~electionExists(electionId) THEN "ElectionNotFound"
    ELSE OK

endElectionOutcome(sender, electionId) ==
    IF ~onlyElectionCreator(sender)
        THEN "AccessControl: Must have election creator role"
    ELSE IF ~electionExists(electionId) THEN "ElectionNotFound"
    ELSE IF ~elections[electionId].isActive
        THEN "VotingContract: Election already ended"
    ELSE OK

endElectionEvents(sender, electionId) ==
    IF endElectionOutcome(sender, electionId) # OK THEN <<>>
    ELSE << [ name |-> "ElectionEnded", electionId |-> electionId,
              totalVotes |-> elections[electionId].totalVotes,
              endedBy |-> sender ] >>

endElection_SetsEndTime(sender, electionId) ==
    IF endElectionOutcome(sender, electionId) = OK
    THEN /\ elections' = [elections EXCEPT ![electionId].isActive = FALSE,
                                           ![electionId].endTime = now]
         /\ UNCHANGED << votingSystem, ElectionEndedLog, now, paused, roles, isVoterRegistered,
                         voterRegistrationTime, electionIds, candidateIds,
                         candidates, voterProfiles >>
    ELSE Revert

endElection(sender, electionId) ==
    IF endElectionOutcome(sender, electionId) = OK
    THEN /\ elections' = [elections EXCEPT ![electionId].isActive = FALSE]
         /\ UNCHANGED << votingSystem, ElectionEndedLog, now, paused, roles, isVoterRegistered,
                         voterRegistrationTime, electionIds, candidateIds,
                         candidates, voterProfiles >>
    ELSE Revert

\* endElection with its ElectionEnded event shown to the observer.
endElectionObserved(sender, electionId) ==
    /\ IF endElectionOutcome(sender, electionId) = OK
       THEN /\ elections' =
                   [elections EXCEPT ![electionId].isActive = FALSE]
            /\ UNCHANGED << votingSystem, now, paused, roles,
                            isVoterRegistered, voterRegistrationTime,
                            electionIds, candidateIds, candidates,
                            voterProfiles >>
       ELSE UNCHANGED << now, storage, votingSystem >>
    /\ ElectionEndedLog' = ElectionEndedLog \cup
           { << event.electionId, event.totalVotes >> :
               event \in { endElectionEvents(sender, electionId)[i] :
                   i \in DOMAIN endElectionEvents(sender, electionId) } }

toggleElectionStatusOutcome_OrAdmin(sender, electionId) ==
    IF ~(onlyElectionCreator(sender) \/ onlyAdmin(sender))
        THEN "AccessControl: Must have election creator role"
    ELSE IF ~electionExists(electionId) THEN "ElectionNotFound"
    ELSE OK

toggleElectionStatusOutcome(sender, electionId) ==
    IF ~onlyElectionCreator(sender)
        THEN "AccessControl: Must have election creator role"
    ELSE IF ~electionExists(electionId) THEN "ElectionNotFound"
    ELSE OK

toggleElectionStatusEvents(sender, electionId) ==
    IF toggleElectionStatusOutcome(sender, electionId) # OK THEN <<>>
    ELSE << [ name |-> "ElectionStatusChanged", electionId |-> electionId,
              isActive |-> ~elections[electionId].isActive,
              changedBy |-> sender ] >>

toggleElectionStatus_ResetsTotal(sender, electionId) ==
    IF toggleElectionStatusOutcome(sender, electionId) = OK
    THEN /\ elections' =
                [elections EXCEPT
                    ![electionId].isActive = ~elections[electionId].isActive,
                    ![electionId].totalVotes = 0]
         /\ UNCHANGED << votingSystem, ElectionEndedLog, now, paused, roles, isVoterRegistered,
                         voterRegistrationTime, electionIds, candidateIds,
                         candidates, voterProfiles >>
    ELSE Revert

toggleElectionStatus(sender, electionId) ==
    IF toggleElectionStatusOutcome(sender, electionId) = OK
    THEN /\ elections' =
                [elections EXCEPT ![electionId].isActive = ~@]
         /\ UNCHANGED << votingSystem, ElectionEndedLog, now, paused, roles, isVoterRegistered,
                         voterRegistrationTime, electionIds, candidateIds,
                         candidates, voterProfiles >>
    ELSE Revert

\* ------------------------------------------------------------------ reads
getTotalElections == electionIds
getTotalCandidates == candidateIds

hasVotedInElection(voter, electionId) == elections[electionId].hasVoted[voter]

\* getElectionResults: the roster and, entry by entry, the election's votes.
getElectionResults_GlobalCount(electionId) ==
    IF ~electionExists(electionId) THEN "ElectionNotFound"
    ELSE [ candidateIds |-> elections[electionId].candidateIds,
           voteCounts |->
               [ i \in 1..Len(elections[electionId].candidateIds) |->
                   candidates[elections[electionId].candidateIds[i]]
                       .voteCount ] ]

getElectionResults(electionId) ==
    IF ~electionExists(electionId) THEN "ElectionNotFound"
    ELSE [ candidateIds |-> elections[electionId].candidateIds,
           voteCounts |->
               [ i \in 1..Len(elections[electionId].candidateIds) |->
                   elections[electionId].votes[
                       elections[electionId].candidateIds[i]] ] ]

getElection_NoRoster(electionId) ==
    IF ~electionExists(electionId) THEN "ElectionNotFound"
    ELSE LET election == elections[electionId] IN
         [ id |-> election.id, title |-> election.title,
           description |-> election.description,
           startTime |-> election.startTime, endTime |-> election.endTime,
           isActive |-> election.isActive,
           totalVotes |-> election.totalVotes,
           candidateIds |-> <<>>,
           creator |-> election.creator, createdAt |-> election.createdAt ]

\* getElection: the revert reason of electionExists, or the ten returned
\* values read from the stored election.
getElection(electionId) ==
    IF ~electionExists(electionId) THEN "ElectionNotFound"
    ELSE LET election == elections[electionId] IN
         [ id |-> election.id, title |-> election.title,
           description |-> election.description,
           startTime |-> election.startTime, endTime |-> election.endTime,
           isActive |-> election.isActive,
           totalVotes |-> election.totalVotes,
           candidateIds |-> election.candidateIds,
           creator |-> election.creator, createdAt |-> election.createdAt ]

\* ---------------------------------------- the role-only VotingContract
\* The second VotingContract of the repository keeps nothing but the role
\* table: roles DEFAULT_ADMIN_ROLE, ADMIN_ROLE and VOTER_ROLE, the last one
\* administered by ADMIN_ROLE.  Its state is the variable roles; where its
\* names collide with those of AccessControl.sol they carry the prefix Rbac_.
otherThanRoles ==
    << votingSystem, ElectionEndedLog, now, paused, isVoterRegistered,
       voterRegistrationTime,
       electionIds, candidateIds, elections, candidates, voterProfiles >>

\* constructor
Rbac_Init ==
    /\ now = 1
    /\ paused = FALSE
    /\ roles = [r \in Roles |->
                  IF r \in {DEFAULT_ADMIN_ROLE, ADMIN_ROLE}
                  THEN {deployer} ELSE {}]
    /\ isVoterRegistered = [p \in Accounts |-> FALSE]
    /\ voterRegistrationTime = [p \in Accounts |-> 0]
    /\ electionIds = 0
    /\ candidateIds = 0
    /\ elections = [e \in ElectionIdSpace |-> Election]
    /\ candidates = [c \in CandidateIdSpace |-> Candidate]
    /\ voterProfiles = [p \in Principals |-> VoterProfile]
    /\ ElectionEndedLog = {}
    /\ VS_constructor

\* _setRoleAdmin(VOTER_ROLE, ADMIN_ROLE)
getRoleAdmin(role) ==
    IF role = VOTER_ROLE THEN ADMIN_ROLE ELSE DEFAULT_ADMIN_ROLE

getRoleMemberCount(role) == Cardinality(roles[role])

Rbac_onlyAdmin(sender) == hasRole(ADMIN_ROLE, sender)

Rbac_registerVoterOutcome(sender, voter) ==
    IF ~Rbac_onlyAdmin(sender) THEN "VotingContract: caller is not an admin"
    ELSE IF voter = ZeroAddress THEN "VotingContract: invalid voter address"
    ELSE IF hasRole(VOTER_ROLE, voter)
        THEN "VotingContract: voter already registered"
    ELSE OK

Rbac_registerVoter(sender, voter) ==
    IF Rbac_registerVoterOutcome(sender, voter) = OK
    THEN /\ roles' = grantedRole(roles, VOTER_ROLE, voter)
         /\ UNCHANGED otherThanRoles
    ELSE Revert

\* The first i entries of the batch are processed; a zero entry among them
\* reverts the whole call.
registerVotersBatchOutcome(sender, voters) ==
    IF ~Rbac_onlyAdmin(sender) THEN "VotingContract: caller is not an admin"
    ELSE IF ~(Len(voters) > 0) THEN "VotingContract: empty voters array"
    ELSE IF ~(Len(voters) <= 100)
        THEN "VotingContract: too many voters in batch"
    ELSE IF \E i \in 1..Len(voters) : voters[i] = ZeroAddress
        THEN "VotingContract: invalid voter address"
    ELSE OK

registerVotersBatch(sender, voters) ==
    IF registerVotersBatchOutcome(sender, voters) = OK
    THEN /\ roles' = [roles EXCEPT ![VOTER_ROLE] =
                         @ \cup { voters[i] : i \in 1..Len(voters) }]
         /\ UNCHANGED otherThanRoles
    ELSE Revert

revokeVoterOutcome(sender, voter) ==
    IF ~Rbac_onlyAdmin(sender) THEN "VotingContract: caller is not an admin"
    ELSE IF voter = ZeroAddress THEN "VotingContract: invalid voter address"
    ELSE IF ~hasRole(VOTER_ROLE, voter)
        THEN "VotingContract: voter not registered"
    ELSE OK

revokeVoter(sender, voter) ==
    IF revokeVoterOutcome(sender, voter) = OK
    THEN /\ roles' = revokedRole(roles, VOTER_ROLE, voter)
         /\ UNCHANGED otherThanRoles
    ELSE Revert

grantAdminRoleOutcome(sender, newAdmin) ==
    IF ~Rbac_onlyAdmin(sender) THEN "VotingContract: caller is not an admin"
    ELSE IF newAdmin = ZeroAddress
        THEN "VotingContract: invalid admin address"
    ELSE IF hasRole(ADMIN_ROLE, newAdmin)
        THEN "VotingContract: address already has admin role"
    ELSE OK

grantAdminRole(sender, newAdmin) ==
    IF grantAdminRoleOutcome(sender, newAdmin) = OK
    THEN /\ roles' = grantedRole(roles, ADMIN_ROLE, newAdmin)
         /\ UNCHANGED otherThanRoles
    ELSE Revert

revokeAdminRoleOutcome_NoSelfCheck(sender, admin) ==
    IF ~Rbac_onlyAdmin(sender) THEN "VotingContract: caller is not an admin"
    ELSE IF admin = ZeroAddress THEN "VotingContract: invalid admin address"
    ELSE IF ~hasRole(ADMIN_ROLE, admin)
        THEN "VotingContract: address does not have admin role"
    ELSE IF ~(getRoleMemberCount(ADMIN_ROLE) > 1)
        THEN "VotingContract: cannot revoke last admin"
    ELSE OK

revokeAdminRoleOutcome_NoTargetCheck(sender, admin) ==
    IF ~Rbac_onlyAdmin(sender) THEN "VotingContract: caller is not an admin"
    ELSE IF admin = ZeroAddress THEN "VotingContract: invalid admin address"
    ELSE IF ~(admin # sender)
        THEN "VotingContract: cannot revoke own admin role"
    ELSE IF ~(getRoleMemberCount(ADMIN_ROLE) > 1)
        THEN "VotingContract: cannot revoke last admin"
    ELSE OK

\* The requires of revokeAdminRole in the order they are written.
revokeAdminRoleOutcome(sender, admin) ==
    IF ~Rbac_onlyAdmin(sender) THEN "VotingContract: caller is not an admin"
    ELSE IF admin = ZeroAddress THEN "VotingContract: invalid admin address"
    ELSE IF ~hasRole(ADMIN_ROLE, admin)
        THEN "VotingContract: address does not have admin role"
    ELSE IF ~(admin # sender)
        THEN "VotingContract: cannot revoke own admin role"
    ELSE IF ~(getRoleMemberCount(ADMIN_ROLE) > 1)
        THEN "VotingContract: cannot revoke last admin"
    ELSE OK

revokeAdminRole(sender, admin) ==
    IF revokeAdminRoleOutcome(sender, admin) = OK
    THEN /\ roles' = revokedRole(roles, ADMIN_ROLE, admin)
         /\ UNCHANGED otherThanRoles
    ELSE Revert

\* Inherited grantRole / revokeRole: onlyRole(getRoleAdmin(role)).
Rbac_grantRoleOutcome(sender, role, account) ==
    IF ~hasRole(getRoleAdmin(role), sender)
        THEN "AccessControl: account is missing role"
    ELSE OK

Rbac_grantRole(sender, role, account) ==
    IF Rbac_grantRoleOutcome(sender, role, account) = OK
    THEN /\ roles' = grantedRole(roles, role, account)
         /\ UNCHANGED otherThanRoles
    ELSE Revert

Rbac_revokeRoleOutcome(sender, role, account) ==
    IF ~hasRole(getRoleAdmin(role), sender)
        THEN "AccessControl: account is missing role"
    ELSE OK

Rbac_revokeRole(sender, role, account) ==
    IF Rbac_revokeRoleOutcome(sender, role, account) = OK
    THEN /\ roles' = revokedRole(roles, role, account)
         /\ UNCHANGED otherThanRoles
    ELSE Revert

Rbac_isRegisteredVoter(voter) == hasRole(VOTER_ROLE, voter)
isAdmin(admin) == hasRole(ADMIN_ROLE, admin)
getVoterCount == getRoleMemberCount(VOTER_ROLE)
getAdminCount == getRoleMemberCount(ADMIN_ROLE)

\* ----------------------------------------------------- VotingSystem.sol
\* Ownable: the deployer owns the contract.
VS_owner == deployer
VS_onlyOwner(sender) == sender = VS_owner

onlyAuthorized(sender) == VS_voters[sender].authorized

validCandidate(candidateId) == VS_candidates[candidateId].exists

authorizeVoterOutcome(sender, voter) ==
    IF ~VS_onlyOwner(sender) THEN "Ownable: caller is not the owner"
    ELSE IF VS_voters[voter].exists THEN "Voter already exists"
    ELSE OK

authorizeVoter(sender, voter) ==
    IF authorizeVoterOutcome(sender, voter) = OK
    THEN /\ VS_voters' =
                [VS_voters EXCEPT
                    ![voter] = [ authorized |-> TRUE, voted |-> FALSE,
                                 vote |-> 0, exists |-> TRUE ]]
         /\ UNCHANGED << now, storage, ElectionEndedLog, VS_paused, VS_candidates, VS_elections,
                         VS_candidatesCount, VS_electionsCount, VS_totalVotes,
                         VS_logs >>
    ELSE Revert

VS_addCandidateOutcome(sender) ==
    IF ~VS_onlyOwner(sender) THEN "Ownable: caller is not the owner" ELSE OK

VS_addCandidate(sender, name, party) ==
    IF VS_addCandidateOutcome(sender) = OK
    THEN /\ VS_candidatesCount' = VS_candidatesCount + 1
         /\ VS_candidates' =
                [VS_candidates EXCEPT
                    ![VS_candidatesCount + 1] =
                        [ id |-> VS_candidatesCount + 1, name |-> name,
                          party |-> party, voteCount |-> 0, exists |-> TRUE ]]
         /\ UNCHANGED << now, storage, ElectionEndedLog, VS_paused, VS_voters, VS_elections,
                         VS_electionsCount, VS_totalVotes, VS_logs >>
    ELSE Revert

VS_createElectionOutcome(sender, startTime, endTime) ==
    IF ~VS_onlyOwner(sender) THEN "Ownable: caller is not the owner"
    ELSE IF ~(startTime < endTime) THEN "Start time must be before end time"
    ELSE IF ~(startTime > now) THEN "Start time must be in the future"
    ELSE OK

VS_createElection(sender, title, description, startTime, endTime) ==
    IF VS_createElectionOutcome(sender, startTime, endTime) = OK
    THEN /\ VS_electionsCount' = VS_electionsCount + 1
         /\ VS_elections' =
                [VS_elections EXCEPT
                    ![VS_electionsCount + 1] =
                        [ id |-> VS_electionsCount + 1, title |-> title,
                          description |-> description,
                          startTime |-> startTime, endTime |-> endTime,
                          active |-> TRUE, exists |-> TRUE ]]
         /\ UNCHANGED << now, storage, ElectionEndedLog, VS_paused, VS_voters, VS_candidates,
                         VS_candidatesCount, VS_totalVotes, VS_logs >>
    ELSE Revert

\* modifier onlyDuringElection: its four requires, in order
VS_onlyDuringElection(electionId) ==
    IF ~VS_elections[electionId].exists THEN "Election does not exist"
    ELSE IF ~VS_elections[electionId].active THEN "Election is not active"
    ELSE IF ~(now >= VS_elections[electionId].startTime)
        THEN "Election has not started"
    ELSE IF ~(now <= VS_elections[electionId].endTime)
        THEN "Election has ended"
    ELSE OK

voteOutcome_NoVotedCheck(sender, candidateId, electionId) ==
    IF ~onlyAuthorized(sender) THEN "Voter not authorized"
    ELSE IF VS_onlyDuringElection(electionId) # OK
        THEN VS_onlyDuringElection(electionId)
    ELSE IF ~validCandidate(candidateId) THEN "Candidate does not exist"
    ELSE IF VS_paused THEN "Pausable: paused"
    ELSE OK

voteOutcome(sender, candidateId, electionId) ==
    IF ~onlyAuthorized(sender) THEN "Voter not authorized"
    ELSE IF VS_onlyDuringElection(electionId) # OK
        THEN VS_onlyDuringElection(electionId)
    ELSE IF ~validCandidate(candidateId) THEN "Candidate does not exist"
    ELSE IF VS_paused THEN "Pausable: paused"
    ELSE IF VS_voters[sender].voted THEN "Voter has already voted"
    ELSE OK

VS_VoteCast(voter, candidateId, electionId) ==
    [ name |-> "VoteCast", voter |-> voter, candidateId |-> candidateId,
      electionId |-> electionId ]

vote(sender, candidateId, electionId) ==
    IF voteOutcome(sender, candidateId, electionId) = OK
    THEN /\ VS_voters' = [VS_voters EXCEPT ![sender].voted = TRUE,
                                           ![sender].vote = candidateId]
         /\ VS_candidates' =
                [VS_candidates EXCEPT ![candidateId].voteCount = @ + 1]
         /\ VS_totalVotes' = VS_totalVotes + 1
         /\ VS_logs' = VS_logs
                (+) SetToBag({VS_VoteCast(sender, candidateId, electionId)})
         /\ UNCHANGED << now, storage, ElectionEndedLog, VS_paused, VS_elections,
                         VS_candidatesCount, VS_electionsCount >>
    ELSE Revert

VS_toggleElectionStatusOutcome(sender, electionId) ==
    IF ~VS_onlyOwner(sender) THEN "Ownable: caller is not the owner"
    ELSE IF ~VS_elections[electionId].exists THEN "Election does not exist"
    ELSE OK

VS_toggleElectionStatus(sender, electionId) ==
    IF VS_toggleElectionStatusOutcome(sender, electionId) = OK
    THEN /\ VS_elections' =
                [VS_elections EXCEPT
                    ![electionId].active = ~VS_elections[electionId].active]
         /\ UNCHANGED << now, storage, ElectionEndedLog, VS_paused, VS_voters, VS_candidates,
                         VS_candidatesCount, VS_electionsCount, VS_totalVotes,
                         VS_logs >>
    ELSE Revert

VS_pauseOutcome(sender) ==
    IF ~VS_onlyOwner(sender) THEN "Ownable: caller is not the owner"
    ELSE IF VS_paused THEN "Pausable: paused"
    ELSE OK

VS_pause(sender) ==
    IF VS_pauseOutcome(sender) = OK
    THEN /\ VS_paused' = TRUE
         /\ UNCHANGED << now, storage, ElectionEndedLog, VS_voters, VS_candidates, VS_elections,
                         VS_candidatesCount, VS_electionsCount, VS_totalVotes,
                         VS_logs >>
    ELSE Revert

VS_unpauseOutcome(sender) ==
    IF ~VS_onlyOwner(sender) THEN "Ownable: caller is not the owner"
    ELSE IF ~VS_paused THEN "Pausable: not paused"
    ELSE OK

VS_unpause(sender) ==
    IF VS_unpauseOutcome(sender) = OK
    THEN /\ VS_paused' = FALSE
         /\ UNCHANGED << now, storage, ElectionEndedLog, VS_voters, VS_candidates, VS_elections,
                         VS_candidatesCount, VS_electionsCount, VS_totalVotes,
                         VS_logs >>
    ELSE Revert

\* getVotingResults: every candidate of the contract as stored, entry i - 1
\* of the returned array at index i.
getVotingResults(electionId) ==
    IF ~VS_elections[electionId].exists THEN "Election does not exist"
    ELSE [ i \in 1..VS_candidatesCount |-> VS_candidates[i] ]

\* ------------------------------------------------------------------- time
Tick ==
    /\ now < MaxTime
    /\ now' = now + 1
    /\ UNCHANGED << storage, votingSystem, ElectionEndedLog >>

\* ------------------------------------------------------ the environment
\* Any principal may submit any call with any of the enumerated inputs.  The
\* explored schedules are restricted in two ways: voters are registered and
\* candidates added in the deployment block, and election windows end before
\* the last modelled instant, so that the instant after a window is seen.
InDeploymentBlock == now = 1

\* Registration, generic role management, the catalogue, the elections and
\* the ballots, with at most maxElections elections.
Ballot(maxElections) ==
    \E sender \in Principals :
        \/ /\ InDeploymentBlock
           /\ \E voter \in Voters : registerVoter(sender, voter)
        \/ /\ InDeploymentBlock
           /\ \E voters \in Batches : batchRegisterVoters(sender, voters)
        \/ \E role \in ManagedRoles, account \in ManagedAccounts :
               grantRole(sender, role, account)
        \/ \E role \in ManagedRoles, account \in ManagedAccounts :
               revokeRole(sender, role, account)
        \/ \E role \in ManagedRoles : renounceRole(sender, role)
        \/ /\ InDeploymentBlock
           /\ candidateIds < MaxCandidates
           /\ \E name \in CandidateNames,
                 description \in CandidateDescriptions :
                  addCandidate(sender, name, description)
        \/ /\ electionIds < maxElections
           /\ \E title \in Titles, description \in Descriptions,
                 startTime \in Times, endTime \in EndTimes,
                 roster \in Rosters :
                  createElection(sender, title, description, startTime,
                                 endTime, roster)
        \/ \E electionId \in ElectionIdSpace,
              candidateId \in CandidateIdSpace :
               castVote(sender, electionId, candidateId)
        \/ \E electionId \in ElectionIdSpace : endElection(sender, electionId)
        \/ \E electionId \in ElectionIdSpace :
               toggleElectionStatus(sender, electionId)

\* Pausing and the management of the election creator role.
Admin ==
    \E sender \in Principals :
        \/ pause(sender)
        \/ unpause(sender)
        \/ \E account \in Creators :
               grantElectionCreatorRole(sender, account)
        \/ \E account \in Creators :
               revokeElectionCreatorRole(sender, account)

Next ==
    \/ Tick
    \/ Ballot(MaxElections)

Spec == Init /\ [][Next]_vars

NextAdmin ==
    \/ Tick
    \/ Ballot(MaxElectionsAdmin)
    \/ Admin

SpecAdmin == Init /\ [][NextAdmin]_vars

\* The catalogue and the election ledger on their own: candidates are added
\* and elections created at any instant, with any window, by the deployer or
\* by a second election creator.
NewCreators == {"alice"}

Catalog ==
    \E sender \in Principals :
        \/ \E account \in NewCreators :
               grantElectionCreatorRole(sender, account)
        \/ /\ candidateIds < MaxCandidates
           /\ \E name \in CandidateNames,
                 description \in CandidateDescriptions :
                  addCandidate(sender, name, description)
        \/ /\ electionIds < MaxElections
           /\ \E title \in Titles, description \in Descriptions,
                 startTime \in Times, endTime \in Times,
                 roster \in Rosters :
                  createElection(sender, title, description, startTime,
                                 endTime, roster)
        \/ \E electionId \in ElectionIdSpace : endElection(sender, electionId)

NextCatalog ==
    \/ Tick
    \/ Catalog

SpecCatalog == Init /\ [][NextCatalog]_vars

\* The access registry on its own: registration at any instant, and the
\* inherited role management applied to the voter and administrator roles of
\* every principal.
RegistryRoles == {VOTER_ROLE, ADMIN_ROLE}

\* An empty batch, a batch with a repeated entry, a single entry, a batch of
\* exactly MaxBatch entries and one of MaxBatch + 1.
RegistryBatches ==
    { <<>>, <<"alice", "bob", "alice">>, <<"bob">>,
      [i \in 1..MaxBatch |-> IF i = 1 THEN "bob" ELSE "alice"],
      [i \in 1..(MaxBatch + 1) |-> "alice"] }

Registry ==
    \E sender \in Principals :
        \/ \E voter \in Voters : registerVoter(sender, voter)
        \/ \E voters \in RegistryBatches : batchRegisterVoters(sender, voters)
        \/ \E role \in RegistryRoles, account \in Principals :
               grantRole(sender, role, account)
        \/ \E role \in RegistryRoles, account \in Principals :
               revokeRole(sender, role, account)
        \/ \E role \in RegistryRoles : renounceRole(sender, role)

NextRegistry ==
    \/ Tick
    \/ Registry

SpecRegistry == Init /\ [][NextRegistry]_vars

\* The role-only VotingContract: its own functions on any account, the zero
\* address included, and the inherited role management on its three roles.
RbacRoles == {DEFAULT_ADMIN_ROLE, ADMIN_ROLE, VOTER_ROLE}
RbacBatches == { <<>>, <<"alice", "bob", "alice">>, <<"bob", ZeroAddress>> }

Rbac ==
    \E sender \in Principals :
        \/ \E voter \in Accounts : Rbac_registerVoter(sender, voter)
        \/ \E voters \in RbacBatches : registerVotersBatch(sender, voters)
        \/ \E voter \in Accounts : revokeVoter(sender, voter)
        \/ \E newAdmin \in Accounts : grantAdminRole(sender, newAdmin)
        \/ \E admin \in Accounts : revokeAdminRole(sender, admin)
        \/ \E role \in RbacRoles, account \in Principals :
               Rbac_grantRole(sender, role, account)
        \/ \E role \in RbacRoles, account \in Principals :
               Rbac_revokeRole(sender, role, account)
        \/ \E role \in RbacRoles : renounceRole(sender, role)

SpecRbac == Rbac_Init /\ [][Rbac]_vars

\* Who may do what: the administrator and election creator roles are granted
\* to and taken from the deployer and a second account, so that each role is
\* held without the other, while the gated functions are called by everyone.
AuthorityAccounts == {"owner", "alice"}
AuthorityRoles == {ADMIN_ROLE}

Authority ==
    \E sender \in Principals :
        \/ \E account \in AuthorityAccounts :
               grantElectionCreatorRole(sender, account)
        \/ \E account \in AuthorityAccounts :
               revokeElectionCreatorRole(sender, account)
        \/ \E role \in AuthorityRoles, account \in AuthorityAccounts :
               grantRole(sender, role, account)
        \/ \E role \in AuthorityRoles, account \in AuthorityAccounts :
               revokeRole(sender, role, account)
        \/ pause(sender)
        \/ unpause(sender)
        \/ /\ InDeploymentBlock
           /\ \E voter \in Voters : registerVoter(sender, voter)
        \/ /\ InDeploymentBlock
           /\ \E voters \in Batches : batchRegisterVoters(sender, voters)
        \/ /\ InDeploymentBlock
           /\ candidateIds < MaxElectionsAdmin
           /\ \E name \in CandidateNames,
                 description \in CandidateDescriptions :
                  addCandidate(sender, name, description)
        \/ /\ electionIds < MaxElectionsAdmin
           /\ \E title \in Titles, description \in Descriptions,
                 startTime \in Times, endTime \in EndTimes,
                 roster \in Rosters :
                  createElection(sender, title, description, startTime,
                                 endTime, roster)
        \/ \E electionId \in ElectionIdSpace : endElection(sender, electionId)
        \/ \E electionId \in ElectionIdSpace :
               toggleElectionStatus(sender, electionId)

NextAuthority ==
    \/ Tick
    \/ Authority

SpecAuthority == Init /\ [][NextAuthority]_vars

\* The simple VotingSystem contract: the owner authorizes the voters, adds
\* candidates and schedules elections; anybody may try any call.
VS_Names == {"N"}
VS_Parties == {"P"}

VotingSystem ==
    \E sender \in Principals :
        \/ \E voter \in Voters : authorizeVoter(sender, voter)
        \/ /\ VS_candidatesCount < MaxCandidates
           /\ \E name \in VS_Names, party \in VS_Parties :
                  VS_addCandidate(sender, name, party)
        \/ /\ VS_electionsCount < MaxElections
           /\ \E title \in Titles, description \in Descriptions,
                 startTime \in Times, endTime \in Times :
                  VS_createElection(sender, title, description, startTime,
                                    endTime)
        \/ \E candidateId \in CandidateIdSpace,
              electionId \in ElectionIdSpace :
               vote(sender, candidateId, electionId)
        \/ \E electionId \in ElectionIdSpace :
               VS_toggleElectionStatus(sender, electionId)
        \/ VS_pause(sender)
        \/ VS_unpause(sender)

NextVotingSystem ==
    \/ Tick
    \/ VotingSystem

SpecVotingSystem == Init /\ [][NextVotingSystem]_vars

\* One election from its creation to its end and after, with the observer
\* of ElectionEnded: voters are registered and candidates added in the
\* deployment block, then votes, endings and toggles in any order.
Finality ==
    \E sender \in Principals :
        \/ /\ InDeploymentBlock
           /\ \E voter \in Voters : registerVoter(sender, voter)
        \/ /\ InDeploymentBlock
           /\ candidateIds < MaxCandidates
           /\ \E name \in CandidateNames,
                 description \in CandidateDescriptions :
                  addCandidate(sender, name, description)
        \/ /\ electionIds < MaxElectionsAdmin
           /\ \E title \in Titles, description \in Descriptions,
                 startTime \in Times, endTime \in EndTimes,
                 roster \in Rosters :
                  createElection(sender, title, description, startTime,
                                 endTime, roster)
        \/ \E electionId \in ElectionIdSpace,
              candidateId \in CandidateIdSpace :
               castVote(sender, electionId, candidateId)
        \/ \E electionId \in ElectionIdSpace :
               endElectionObserved(sender, electionId)
        \/ \E electionId \in ElectionIdSpace :
               toggleElectionStatus(sender, electionId)

NextFinality ==
    \/ Tick
    \/ Finality

SpecFinality == Init /\ [][NextFinality]_vars

\* ===================================================================
\* Properties
\* ===================================================================
RECURSIVE SumOver(_, _)
SumOver(f, S) ==
    IF S = {} THEN 0
    ELSE LET x == CHOOSE y \in S : TRUE IN f[x] + SumOver(f, S \ {x})

ExistingElections == 1..electionIds
ExistingCandidates == { c \in CandidateIdSpace : candidates[c].exists }

RosterOf(e) ==
    { elections[e].candidateIds[i] : i \in 1..Len(elections[e].candidateIds) }

Ballots(e) == { p \in Principals : elections[e].hasVoted[p] }

\* The Open state of the specification, from the stored fields and the clock.
Open(e) ==
    /\ elections[e].isActive
    /\ elections[e].startTime <= now
    /\ now <= elections[e].endTime

\* What one transaction may have changed in election e's ballot data.
BallotsChanged(e) ==
    \/ elections'[e].hasVoted # elections[e].hasVoted
    \/ elections'[e].votes # elections[e].votes
    \/ elections'[e].totalVotes # elections[e].totalVotes

\* C1: no double voting.  In every reachable state, a castVote by a principal
\* already marked as having voted in the election does not commit, whatever
\* the candidate, and its revert reason is VoterAlreadyVoted when the caller
\* still holds the voter role, the candidate exists and the election is open.
\* In every step the mark stays set, and a step in which that principal casts
\* a ballot (its profile counts one more) leaves that election, results
\* included, unchanged.
C1_SecondVoteReverts ==
    \A e \in ExistingElections, p \in Principals :
        elections[e].hasVoted[p] =>
            \A c \in CandidateIdSpace :
                /\ castVoteOutcome(p, e, c) # OK
                /\ ( /\ p \in roles[VOTER_ROLE]
                     /\ candidates[c].exists
                     /\ Open(e) )
                   => castVoteOutcome(p, e, c) = "VoterAlreadyVoted"

C1_VotedOnce ==
    \A e \in ExistingElections, p \in Principals :
        elections[e].hasVoted[p] =>
            /\ elections'[e].hasVoted[p]
            /\ voterProfiles'[p] # voterProfiles[p]
                   => elections'[e] = elections[e]

C1_NoDoubleVoting ==
    /\ []C1_SecondVoteReverts
    /\ [][C1_VotedOnce]_vars

\* A voter has voted in an election that is still open, where the voter
\* still holds the role and a second candidate of the roster is available.
C1_Witness ==
    \E e \in ExistingElections, p \in Principals, c \in CandidateIdSpace :
        /\ elections[e].hasVoted[p]
        /\ p \in roles[VOTER_ROLE]
        /\ Open(e)
        /\ ~paused
        /\ c \in RosterOf(e)
        /\ candidates[c].exists
        /\ elections[e].votes[c] = 0

\* C2: in every reachable state and for every election, totalVotes equals the
\* sum of the per-candidate votes and equals the number of principals marked
\* as having voted.
C2_TallyInvariant ==
    \A e \in ElectionIdSpace :
        /\ elections[e].totalVotes
               = SumOver(elections[e].votes, CandidateIdSpace)
        /\ elections[e].totalVotes = Cardinality(Ballots(e))

C2_Witness ==
    \E e \in ExistingElections :
        /\ elections[e].totalVotes = 2
        /\ \E c1, c2 \in CandidateIdSpace :
              c1 # c2 /\ elections[e].votes[c1] = 1
                      /\ elections[e].votes[c2] = 1

\* C3: in every reachable state and for every candidate, the global voteCount
\* equals the sum, over the elections whose roster contains the candidate, of
\* the votes recorded for it in that election.
C3_VoteCountInvariant ==
    \A c \in CandidateIdSpace :
        candidates[c].voteCount
            = SumOver([e \in ElectionIdSpace |-> elections[e].votes[c]],
                      { e \in ExistingElections : c \in RosterOf(e) })

C3_Witness ==
    \E c \in ExistingCandidates :
        /\ candidates[c].voteCount >= 2
        /\ \E e1, e2 \in ExistingElections :
              /\ e1 # e2
              /\ elections[e1].votes[c] >= 1
              /\ elections[e2].votes[c] >= 1

\* A call castVote(p, e, c) that passes every check other than the time
\* window: role, existence, roster, ballot marker, pause flag, active flag.
Eligible(p, e, c) ==
    /\ p \in roles[VOTER_ROLE]
    /\ e \in ExistingElections
    /\ candidates[c].exists
    /\ c \in RosterOf(e)
    /\ ~elections[e].hasVoted[p]
    /\ ~paused
    /\ elections[e].isActive

CastVoteReasons ==
    { castVoteOutcome(p, e, c) :
        p \in Principals, e \in ElectionIdSpace, c \in CandidateIdSpace }

\* C4: castVote is all-or-nothing.  A call that fails one of its checks
\* (role, election existence, candidate existence, active flag and window,
\* already voted, pause flag, roster membership) emits no event, and every
\* step that changes a ballot marker, a per-election vote, a total, a
\* candidate's voteCount or a voter profile is one castVote(p, e, c) whose
\* checks all passed and which applied all of its writes: no failing call
\* leaves any of them behind.
C4_FailureEmitsNothing ==
    \A p \in Principals, e \in ElectionIdSpace, c \in CandidateIdSpace :
        castVoteOutcome(p, e, c) # OK => castVoteEvents(p, e, c) = <<>>

BallotDataChanged ==
    \/ \E e \in ElectionIdSpace : BallotsChanged(e)
    \/ \E c \in CandidateIdSpace :
          candidates'[c].voteCount # candidates[c].voteCount
    \/ voterProfiles' # voterProfiles

C4_FailureWritesNothing ==
    BallotDataChanged =>
        \E p \in Principals, e \in ElectionIdSpace, c \in CandidateIdSpace :
            /\ castVoteOutcome(p, e, c) = OK
            /\ ~elections[e].hasVoted[p] /\ elections'[e].hasVoted[p]
            /\ elections'[e].votes[c] = elections[e].votes[c] + 1
            /\ elections'[e].totalVotes = elections[e].totalVotes + 1
            /\ candidates'[c].voteCount = candidates[c].voteCount + 1
            /\ voterProfiles'[p].totalVotesCast
                   = voterProfiles[p].totalVotesCast + 1
            /\ voterProfiles'[p].electionsVotedIn[e]

C4_AllOrNothing ==
    /\ []C4_FailureEmitsNothing
    /\ [][C4_FailureWritesNothing]_vars

\* Ballots exist, and calls failing on the role, the election id, the
\* candidate id, the ballot marker and the pause flag are all at hand.
C4_Witness ==
    /\ \E e \in ExistingElections : elections[e].totalVotes >= 1
    /\ { "AccessControl: Must have voter role", "ElectionNotFound",
         "CandidateNotFound", "VoterAlreadyVoted", "Pausable: paused" }
           \subseteq CastVoteReasons

\* C5: votes are accepted only in the Open state.  Every step that changes
\* the ballot data of an election (marker, per-candidate votes, total) starts
\* in a state where the election is active and startTime <= now <= endTime,
\* now being the clock of that very step.
C5_BallotOnlyWhenOpen ==
    \A e \in ElectionIdSpace : BallotsChanged(e) => Open(e)

C5_VotesOnlyWhenOpen == [][C5_BallotOnlyWhenOpen]_vars

\* An election holds a ballot, is no longer open, and the only thing that
\* keeps another voter's call from committing is the lifecycle check.
C5_Witness ==
    \E e \in ExistingElections, p \in Principals, c \in CandidateIdSpace :
        /\ elections[e].totalVotes >= 1
        /\ ~Open(e)
        /\ p \in roles[VOTER_ROLE]
        /\ ~elections[e].hasVoted[p]
        /\ c \in RosterOf(e) /\ candidates[c].exists
        /\ castVoteOutcome(p, e, c)
              \in {"ElectionNotActive", "ElectionNotStarted", "ElectionEnded"}

\* C6: the window boundaries are inclusive.  For a call that passes every
\* other check, castVote commits at now = startTime and at now = endTime,
\* reverts with ElectionEnded at now = endTime + 1 and with
\* ElectionNotStarted at now = startTime - 1.
C6_InclusiveWindow ==
    \A p \in Principals, e \in ElectionIdSpace, c \in CandidateIdSpace :
        Eligible(p, e, c) =>
            /\ now = elections[e].startTime => castVoteOutcome(p, e, c) = OK
            /\ now = elections[e].endTime => castVoteOutcome(p, e, c) = OK
            /\ now = elections[e].endTime + 1
                   => castVoteOutcome(p, e, c) = "ElectionEnded"
            /\ now = elections[e].startTime - 1
                   => castVoteOutcome(p, e, c) = "ElectionNotStarted"

\* At the last instant of a window that already holds a ballot, another
\* voter's call is still accepted.
C6_Witness ==
    \E p \in Principals, e \in ElectionIdSpace, c \in CandidateIdSpace :
        /\ Eligible(p, e, c)
        /\ now = elections[e].endTime
        /\ elections[e].totalVotes >= 1
        /\ castVoteOutcome(p, e, c) = OK

\* C7: only holders of the voter role can vote.  In every reachable state a
\* castVote by a principal outside VOTER_ROLE reverts with the role error,
\* and no step marks such a principal as having voted or touches its profile.
C7_NonVoterReverts ==
    \A p \in Principals \ roles[VOTER_ROLE] :
        \A e \in ElectionIdSpace, c \in CandidateIdSpace :
            castVoteOutcome(p, e, c) = "AccessControl: Must have voter role"

C7_NonVoterUntouched ==
    \A p \in Principals \ roles[VOTER_ROLE] :
        /\ voterProfiles'[p] = voterProfiles[p]
        /\ \A e \in ElectionIdSpace :
              elections'[e].hasVoted[p] = elections[e].hasVoted[p]

C7_OnlyVotersVote ==
    /\ []C7_NonVoterReverts
    /\ [][C7_NonVoterUntouched]_vars

\* A registered voter whose role was revoked, and the never registered
\* administrator, face an open election whose candidate they could vote for.
C7_Witness ==
    \E p \in Principals, e \in ExistingElections, c \in CandidateIdSpace :
        /\ isVoterRegistered[p] /\ p \notin roles[VOTER_ROLE]
        /\ ~isVoterRegistered[deployer] /\ deployer \in roles[ADMIN_ROLE]
        /\ deployer \notin roles[VOTER_ROLE]
        /\ Open(e) /\ ~paused
        /\ c \in RosterOf(e) /\ candidates[c].exists
        /\ ~elections[e].hasVoted[p]
        /\ elections[e].totalVotes >= 1

\* C8 as stated: while the pause flag is set, the only step that changes the
\* storage is unpause.
C8_OnlyUnpause ==
    paused =>
        \/ UNCHANGED storage
        \/ /\ paused' = FALSE
           /\ UNCHANGED << roles, isVoterRegistered, voterRegistrationTime,
                           electionIds, candidateIds, elections, candidates,
                           voterProfiles >>

C8_PausedGatesEveryMutation == [][C8_OnlyUnpause]_vars

\* C8 as amended: while the pause flag is set, castVote, addCandidate,
\* createElection and pause revert and the catalogue, the election counter,
\* the stored elections apart from isActive, and the ballots do not change;
\* endElection, toggleElectionStatus, registerVoter, batchRegisterVoters and
\* grant/revokeElectionCreatorRole are not gated: they commit on exactly the
\* conditions they commit on when not paused.
C8_GatedCallsRevert ==
    paused =>
        /\ \A p \in Principals :
              /\ pauseOutcome(p) # OK
              /\ \A e \in ElectionIdSpace, c \in CandidateIdSpace :
                    castVoteOutcome(p, e, c) # OK
              /\ \A n \in CandidateNames, d \in CandidateDescriptions :
                    addCandidateOutcome(p, n, d) # OK
              /\ \A st \in Times, en \in EndTimes, r \in Rosters :
                    createElectionOutcome(p, st, en, r) # OK
        /\ \A p \in Principals :
              /\ \A v \in Principals :
                    registerVoterOutcome(p, v) = OK
                        <=> (p \in roles[ADMIN_ROLE] /\ ~isVoterRegistered[v])
              /\ \A b \in Batches :
                    batchRegisterVotersOutcome(p, b) = OK
                        <=> (p \in roles[ADMIN_ROLE] /\ Len(b) > 0
                             /\ Len(b) <= MaxBatch)
              /\ \A a \in Principals :
                    /\ grantElectionCreatorRoleOutcome(p, a) = OK
                           <=> p \in roles[ADMIN_ROLE]
                    /\ revokeElectionCreatorRoleOutcome(p, a) = OK
                           <=> p \in roles[ADMIN_ROLE]
              /\ \A e \in ElectionIdSpace :
                    /\ endElectionOutcome(p, e) = OK
                           <=> ( /\ p \in roles[ELECTION_CREATOR_ROLE]
                                 /\ e \in ExistingElections
                                 /\ elections[e].isActive )
                    /\ toggleElectionStatusOutcome(p, e) = OK
                           <=> ( /\ p \in roles[ELECTION_CREATOR_ROLE]
                                 /\ e \in ExistingElections )

C8_GatedStateFrozen ==
    paused =>
        /\ UNCHANGED << electionIds, candidateIds, candidates,
                        voterProfiles >>
        /\ \A e \in ElectionIdSpace :
              [elections'[e] EXCEPT !.isActive = elections[e].isActive]
                  = elections[e]

C8_PausedGatesVotingAndCreation ==
    /\ []C8_GatedCallsRevert
    /\ [][C8_GatedStateFrozen]_vars

\* The flag is set while a voter's call is refused by nothing but the flag,
\* an election could be ended, and a principal could still be registered.
C8_Witness ==
    /\ paused
    /\ "Pausable: paused" \in CastVoteReasons
    /\ \E e \in ExistingElections : endElectionOutcome(deployer, e) = OK
    /\ \E v \in Principals : registerVoterOutcome(deployer, v) = OK
    /\ \E v \in Principals : isVoterRegistered[v]

\* C9 as stated: every stored election has a non-empty roster whose ids all
\* name existing candidates (ids in 1..candidateIds).
C9_RosterValid ==
    \A e \in ExistingElections :
        /\ Len(elections[e].candidateIds) > 0
        /\ RosterOf(e) \subseteq 1..candidateIds

\* C10: createElection with startTime >= endTime or startTime <= now never
\* commits, and reverts with InvalidTimeRange when the caller holds the
\* election creator role and the contract is not paused; every stored
\* election satisfies createdAt < startTime < endTime.
C10_InvalidTimeRange ==
    /\ \A p \in Principals, st \in Times, en \in Times, r \in Rosters :
          (st >= en \/ st <= now) =>
              /\ createElectionOutcome(p, st, en, r) # OK
              /\ (p \in roles[ELECTION_CREATOR_ROLE] /\ ~paused)
                    => createElectionOutcome(p, st, en, r)
                           = "InvalidTimeRange"
    /\ \A e \in ExistingElections :
          /\ elections[e].createdAt < elections[e].startTime
          /\ elections[e].startTime < elections[e].endTime

\* An election is stored, and a creator's call naming the current instant as
\* start is refused for its time range.
C10_Witness ==
    /\ electionIds >= 1
    /\ \E p \in Principals, en \in Times :
          /\ now < en
          /\ createElectionOutcome(p, now, en, <<>>) = "InvalidTimeRange"

\* C11: round trip.  Every step that creates an election is a createElection
\* whose checks passed for some caller c and inputs (title, description,
\* start, end, roster) which it stored, and getElection of the new id, read
\* in the state right after that step, returns exactly those inputs, the
\* roster in the same order, with isActive = TRUE, totalVotes = 0,
\* creator = c and the new id.
C11_RoundTripStep ==
    electionIds' # electionIds =>
        \E k \in ElectionIdSpace :
            /\ k = electionIds + 1
            /\ \E c \in Principals, t \in Titles, d \in Descriptions,
                  st \in Times, en \in Times, r \in Rosters :
                   /\ createElectionOutcome(c, st, en, r) = OK
                   /\ elections'[k].title = t
                   /\ elections'[k].description = d
                   /\ elections'[k].startTime = st
                   /\ elections'[k].endTime = en
                   /\ elections'[k].candidateIds = r
                   /\ elections'[k].creator = c
                   /\ getElection(k)' =
                          [ id |-> k, title |-> t, description |-> d,
                            startTime |-> st, endTime |-> en,
                            isActive |-> TRUE, totalVotes |-> 0,
                            candidateIds |-> r, creator |-> c,
                            createdAt |-> now ]

C11_RoundTrip == [][C11_RoundTripStep]_vars

\* The state right after the creation of a second election with a two-entry
\* roster, the first one having been created earlier with another roster.
C11_Witness ==
    /\ electionIds = 2
    /\ getElection(2).createdAt = now
    /\ getElection(2).candidateIds = <<1, 2>>
    /\ getElection(2).isActive /\ getElection(2).totalVotes = 0
    /\ getElection(2).creator # deployer
    /\ getElection(1).createdAt < now
    /\ getElection(1).candidateIds = <<1, 1>>
    /\ getElection(1).endTime # getElection(2).endTime
    /\ getElection(1).creator = deployer

\* C12: ids are dense and never reused.  In every reachable state the
\* existing candidates are exactly the ids 1..getTotalCandidates() and the
\* existing elections exactly the ids 1..getTotalElections(), the record
\* stored at id k has id field k, and nothing is stored at any other id.  In
\* every step each counter stays or grows by exactly 1, it grows exactly when
\* a record appears at the next id, and the records already stored keep
\* their identity.
C12_Dense ==
    /\ ExistingCandidates = 1..getTotalCandidates
    /\ \A c \in CandidateIdSpace :
          IF c \in 1..getTotalCandidates
          THEN candidates[c].id = c /\ candidateExists(c)
          ELSE candidates[c] = Candidate
    /\ \A e \in ElectionIdSpace :
          /\ electionExists(e) <=> e \in 1..getTotalElections
          /\ IF e \in 1..getTotalElections
             THEN elections[e].id = e /\ elections[e].createdAt > 0
             ELSE elections[e] = Election

C12_GrowsByOne ==
    /\ candidateIds' \in {candidateIds, candidateIds + 1}
    /\ electionIds' \in {electionIds, electionIds + 1}
    /\ candidateIds' = candidateIds + 1
          <=> { c \in CandidateIdSpace : candidates'[c].exists }
                  # ExistingCandidates
    /\ electionIds' = electionIds + 1
          <=> \E e \in ElectionIdSpace :
                  elections[e].createdAt = 0 /\ elections'[e].createdAt > 0
    /\ \A c \in 1..candidateIds :
          [candidates'[c] EXCEPT !.voteCount = candidates[c].voteCount]
              = candidates[c]
    /\ \A e \in 1..electionIds :
          /\ elections'[e].id = elections[e].id
          /\ elections'[e].title = elections[e].title
          /\ elections'[e].creator = elections[e].creator
          /\ elections'[e].createdAt = elections[e].createdAt
          /\ elections'[e].candidateIds = elections[e].candidateIds

C12_DenseIds ==
    /\ []C12_Dense
    /\ [][C12_GrowsByOne]_vars

\* Two candidates and two elections, each added at a different instant.
C12_Witness ==
    /\ getTotalCandidates = 2 /\ getTotalElections = 2
    /\ candidates[1].addedAt < candidates[2].addedAt
    /\ elections[1].createdAt < elections[2].createdAt

\* C13: in every reachable state, addCandidate with an empty name or an empty
\* description does not commit and emits nothing, and fails with
\* InvalidCandidateData when the caller is an election creator and the
\* contract is not paused; a call with a name and a description gets the id
\* candidateIds + 1, which failed calls never consume: every stored
\* candidate has a name and a description, and the counter changes only in a
\* step that stores such a candidate at the next id.
C13_InvalidCandidateData ==
    /\ \A p \in Principals, n \in CandidateNames,
          d \in CandidateDescriptions :
          IF n = "" \/ d = ""
          THEN /\ addCandidateOutcome(p, n, d) # OK
               /\ addCandidateEvents(p, n, d) = <<>>
               /\ (p \in roles[ELECTION_CREATOR_ROLE] /\ ~paused)
                     => addCandidateOutcome(p, n, d) = "InvalidCandidateData"
          ELSE addCandidateOutcome(p, n, d) = OK
                   => addCandidateEvents(p, n, d)[1].candidateId
                          = candidateIds + 1
    /\ \A c \in ExistingCandidates :
          candidates[c].name # "" /\ candidates[c].description # ""

C13_CounterOnSuccess ==
    candidateIds' # candidateIds =>
        \E k \in CandidateIdSpace :
            /\ k = candidateIds + 1 /\ candidateIds' = k
            /\ candidates'[k].id = k
            /\ candidates'[k].name # "" /\ candidates'[k].description # ""

C13_EmptyCandidateRejected ==
    /\ []C13_InvalidCandidateData
    /\ [][C13_CounterOnSuccess]_vars

\* One candidate is stored, time has passed since, and calls by the creator
\* with an empty name and with an empty description are refused for their
\* data while a complete one would be accepted.
C13_Witness ==
    /\ candidateIds = 1 /\ candidates[1].addedAt < now
    /\ addCandidateOutcome(deployer, "", "CD") = "InvalidCandidateData"
    /\ addCandidateOutcome(deployer, "N", "") = "InvalidCandidateData"
    /\ addCandidateOutcome(deployer, "N", "CD") = OK

Registered == { v \in Principals : isVoterRegistered[v] }

\* The positions of the VoterRegistered events for voter v in an event list.
RegisteredEvents(events, v) ==
    { i \in 1..Len(events) :
        events[i].name = "VoterRegistered" /\ events[i].voter = v }

\* C14: in every reachable state, registerVoter on a principal that is
\* already registered does not commit and emits nothing, and its revert
\* reason is the already-registered error when the caller is an
\* administrator; a step that is such a call leaves the role sets,
\* isVoterRegistered and the registration times unchanged.
C14_AlreadyRegistered ==
    \A p \in Principals, v \in Registered :
        /\ registerVoterOutcome(p, v) # OK
        /\ registerVoterEvents(p, v) = <<>>
        /\ p \in roles[ADMIN_ROLE]
              => registerVoterOutcome(p, v)
                     = "AccessControl: Voter already registered"

C14_SecondCallWritesNothing ==
    \A p \in Principals, v \in Registered :
        registerVoter(p, v) =>
            UNCHANGED << roles, isVoterRegistered, voterRegistrationTime >>

C14_RegisterTwiceFails ==
    /\ []C14_AlreadyRegistered
    /\ [][C14_SecondCallWritesNothing]_vars

\* A voter registered at an earlier instant has lost the voter role, and an
\* administrator is there to try the registration again.
C14_Witness ==
    \E v \in Registered :
        /\ voterRegistrationTime[v] < now
        /\ v \notin roles[VOTER_ROLE]
        /\ deployer \in roles[ADMIN_ROLE]

\* C15 as stated: once isRegisteredVoter(P) is true it is true in every
\* later state.
C15_StaysRegistered ==
    \A p \in Principals : isRegisteredVoter(p) => isRegisteredVoter(p)'

C15_Monotonic == [][C15_StaysRegistered]_vars

\* C16: each principal is registered at most once.  In every reachable state
\* an unregistered principal has no registration time and a registered one
\* has a time not later than now; no registerVoter or batchRegisterVoters
\* call emits VoterRegistered for a registered principal, and a batch emits
\* it at most once per principal.  In every step a registered principal stays
\* registered with the same time, whatever happens to its voter role, and a
\* principal that becomes registered gets now as its time.
C16_NoSecondRegistration ==
    \A v \in Principals :
        /\ ~isVoterRegistered[v] => voterRegistrationTime[v] = 0
        /\ isVoterRegistered[v] => voterRegistrationTime[v] \in 1..now
        /\ \A p \in Principals :
              /\ Cardinality(RegisteredEvents(registerVoterEvents(p, v), v))
                     <= (IF isVoterRegistered[v] THEN 0 ELSE 1)
              /\ \A b \in Batches :
                    Cardinality(RegisteredEvents(
                        batchRegisterVotersEvents(p, b, Len(b)), v))
                      <= (IF isVoterRegistered[v] THEN 0 ELSE 1)

C16_RecordKept ==
    \A v \in Principals :
        /\ isVoterRegistered[v] =>
              /\ isVoterRegistered'[v]
              /\ voterRegistrationTime'[v] = voterRegistrationTime[v]
        /\ (~isVoterRegistered[v] /\ isVoterRegistered'[v]) =>
              voterRegistrationTime'[v] = now

SetOf(voters) == { voters[i] : i \in 1..Len(voters) }

\* C17: batchRegisterVoters is partially successful.  In every reachable
\* state a batch of 1..100 entries submitted by an administrator is accepted
\* whichever of its entries are registered or repeated.  A step that is such
\* a call registers exactly the distinct unregistered principals of the
\* batch, at now and with the voter role, leaves the registered ones' times
\* and everybody else untouched, and the number of registered voters grows
\* by the number of distinct new principals.
C17_NeverFailsOnRegistered ==
    \A p \in roles[ADMIN_ROLE], b \in RegistryBatches :
        (Len(b) >= 1 /\ Len(b) <= 100) => batchRegisterVotersOutcome(p, b) = OK

C17_RegistersTheRest ==
    \A p \in roles[ADMIN_ROLE], b \in RegistryBatches :
        (Len(b) >= 1 /\ Len(b) <= 100 /\ batchRegisterVoters(p, b)) =>
            LET new == SetOf(b) \ Registered IN
            /\ { v \in Principals : isVoterRegistered'[v] }
                   = Registered \cup SetOf(b)
            /\ Cardinality({ v \in Principals : isVoterRegistered'[v] })
                   = Cardinality(Registered) + Cardinality(new)
            /\ \A v \in new : voterRegistrationTime'[v] = now
            /\ \A v \in Principals \ new :
                   voterRegistrationTime'[v] = voterRegistrationTime[v]
            /\ roles' = [roles EXCEPT ![VOTER_ROLE] = @ \cup new]

C17_BatchPartiallySuccessful ==
    /\ []C17_NeverFailsOnRegistered
    /\ [][C17_RegistersTheRest]_vars

\* alice was registered at an earlier instant and bob is not registered, so
\* the batch [alice, bob, alice] of an administrator has one entry to
\* register and two to skip.
C17_Witness ==
    /\ isVoterRegistered["alice"] /\ ~isVoterRegistered["bob"]
    /\ voterRegistrationTime["alice"] < now
    /\ batchRegisterVotersOutcome(deployer, <<"alice", "bob", "alice">>) = OK

\* C18: in every reachable state an administrator's batchRegisterVoters fails
\* with the empty-batch error on an empty list and with the too-large error
\* on a list of more than 100 entries, a list of exactly 100 is accepted, and
\* the failing calls emit nothing; a step that is a call with an empty or an
\* oversized list registers nobody.
C18_BatchSizeChecked ==
    \A p \in Principals, b \in RegistryBatches :
        /\ (Len(b) = 0 \/ Len(b) > 100) =>
              /\ batchRegisterVotersOutcome(p, b) # OK
              /\ batchRegisterVotersEvents(p, b, Len(b)) = <<>>
        /\ p \in roles[ADMIN_ROLE] =>
              /\ Len(b) = 0 => batchRegisterVotersOutcome(p, b)
                                  = "AccessControl: Empty voters array"
              /\ Len(b) > 100 => batchRegisterVotersOutcome(p, b)
                                    = "AccessControl: Too many voters in batch"
              /\ Len(b) = 100 => batchRegisterVotersOutcome(p, b) = OK

C18_FailedBatchRegistersNobody ==
    \A p \in Principals, b \in RegistryBatches :
        ((Len(b) = 0 \/ Len(b) > 100) /\ batchRegisterVoters(p, b)) =>
            UNCHANGED << roles, isVoterRegistered, voterRegistrationTime >>

C18_BatchBounds ==
    /\ []C18_BatchSizeChecked
    /\ [][C18_FailedBatchRegistersNobody]_vars

\* Nobody is registered although time has passed, and an administrator has
\* lists of 0, 100 and 101 entries at hand.
C18_Witness ==
    /\ Registered = {} /\ now > 1
    /\ deployer \in roles[ADMIN_ROLE]
    /\ \E b0, b100, b101 \in RegistryBatches :
          Len(b0) = 0 /\ Len(b100) = 100 /\ Len(b101) = 101

\* C19 as stated: in every reachable state of the role-only contract at
\* least one principal holds ADMIN_ROLE.
C19_AlwaysAnAdministrator == getAdminCount >= 1

\* C20 as stated: the only administrator revoking their own administrator
\* role is refused with the last-administrator error.
C20_LastAdminError ==
    \A a \in Principals :
        roles[ADMIN_ROLE] = {a} =>
            revokeAdminRoleOutcome(a, a)
                = "VotingContract: cannot revoke last admin"

\* C20 as amended: in every reachable state, an administrator calling
\* revokeAdminRole on themselves, the only administrator included, is refused
\* with the own-role error, and no call of revokeAdminRole is ever refused
\* with the last-administrator error; a step that is such a self-revocation
\* leaves the role table unchanged.
C20_OwnRoleError ==
    /\ \A a \in roles[ADMIN_ROLE] :
          revokeAdminRoleOutcome(a, a)
              = "VotingContract: cannot revoke own admin role"
    /\ \A p \in Principals, a \in Accounts :
          revokeAdminRoleOutcome(p, a)
              # "VotingContract: cannot revoke last admin"

C20_SelfRevocationWritesNothing ==
    \A a \in roles[ADMIN_ROLE] : revokeAdminRole(a, a) => UNCHANGED roles

C20_CannotRevokeSelf ==
    /\ []C20_OwnRoleError
    /\ [][C20_SelfRevocationWritesNothing]_vars

\* The only administrator is a principal other than the deployer, who was
\* granted the role and then revoked the deployer's.
C20_Witness ==
    \E a \in Principals \ {deployer} :
        /\ roles[ADMIN_ROLE] = {a}
        /\ getAdminCount = 1
        /\ deployer \in roles[DEFAULT_ADMIN_ROLE]

AdminError == "AccessControl: Must have admin role"
CreatorError == "AccessControl: Must have election creator role"

\* C21: role-gated mutations.  In every reachable state registerVoter,
\* batchRegisterVoters, grantElectionCreatorRole, revokeElectionCreatorRole,
\* pause and unpause by a caller outside ADMIN_ROLE fail with the
\* administrator role error, and addCandidate, createElection and
\* endElection by a caller outside ELECTION_CREATOR_ROLE fail with the
\* election creator role error, whichever other role the caller holds.  In
\* every step, the registrations and the pause flag change only while
\* somebody holds ADMIN_ROLE, the catalogue and the elections only while
\* somebody holds ELECTION_CREATOR_ROLE, and a new candidate or election is
\* recorded as added by a holder of ELECTION_CREATOR_ROLE.
C21_RoleErrors ==
    /\ \A p \in Principals \ roles[ADMIN_ROLE] :
          /\ \A v \in Principals : registerVoterOutcome(p, v) = AdminError
          /\ \A b \in Batches : batchRegisterVotersOutcome(p, b) = AdminError
          /\ \A a \in Principals :
                /\ grantElectionCreatorRoleOutcome(p, a) = AdminError
                /\ revokeElectionCreatorRoleOutcome(p, a) = AdminError
          /\ pauseOutcome(p) = AdminError
          /\ unpauseOutcome(p) = AdminError
    /\ \A p \in Principals \ roles[ELECTION_CREATOR_ROLE] :
          /\ \A n \in CandidateNames, d \in CandidateDescriptions :
                addCandidateOutcome(p, n, d) = CreatorError
          /\ \A st \in Times, en \in Times, r \in Rosters :
                createElectionOutcome(p, st, en, r) = CreatorError
          /\ \A e \in ElectionIdSpace : endElectionOutcome(p, e) = CreatorError

C21_GatedWrites ==
    /\ roles[ADMIN_ROLE] = {} =>
          UNCHANGED << isVoterRegistered, voterRegistrationTime, paused >>
    /\ (roles[ADMIN_ROLE] = {} /\ ~(deployer \in roles[DEFAULT_ADMIN_ROLE]))
          => UNCHANGED roles
    /\ roles[ELECTION_CREATOR_ROLE] = {} =>
          UNCHANGED << candidateIds, candidates, electionIds, elections >>
    /\ candidateIds' # candidateIds =>
          candidates'[candidateIds'].addedBy \in roles[ELECTION_CREATOR_ROLE]
    /\ electionIds' # electionIds =>
          elections'[electionIds'].creator \in roles[ELECTION_CREATOR_ROLE]

C21_RoleGated ==
    /\ []C21_RoleErrors
    /\ [][C21_GatedWrites]_vars

\* One principal holds ADMIN_ROLE without ELECTION_CREATOR_ROLE, another
\* ELECTION_CREATOR_ROLE without ADMIN_ROLE, the contract is paused and an
\* active election exists: each has calls only the other may make.
C21_Witness ==
    \E a, c \in Principals :
        /\ a \in roles[ADMIN_ROLE] \ roles[ELECTION_CREATOR_ROLE]
        /\ c \in roles[ELECTION_CREATOR_ROLE] \ roles[ADMIN_ROLE]
        /\ paused
        /\ electionIds = 1 /\ elections[1].isActive
        /\ unpauseOutcome(a) = OK /\ endElectionOutcome(c, 1) = OK

\* C22 as stated: grantRole of ADMIN_ROLE or ELECTION_CREATOR_ROLE commits
\* exactly for the callers that hold ADMIN_ROLE.
C22_GrantByAdministrator ==
    \A p \in Principals, a \in Principals,
       role \in {ADMIN_ROLE, ELECTION_CREATOR_ROLE} :
        grantRoleOutcome(p, role, a) = OK <=> p \in roles[ADMIN_ROLE]

\* C23 as stated: toggleElectionStatus on an existing election commits for
\* every caller holding ELECTION_CREATOR_ROLE or ADMIN_ROLE.
C23_ToggleByCreatorOrAdmin ==
    \A p \in roles[ELECTION_CREATOR_ROLE] \cup roles[ADMIN_ROLE],
       e \in ExistingElections :
        toggleElectionStatusOutcome(p, e) = OK

\* C23 as amended: in every reachable state toggleElectionStatus commits
\* exactly for a holder of ELECTION_CREATOR_ROLE on an existing election; a
\* holder fails only with ElectionNotFound, and anybody else, an
\* administrator included, fails with the election creator role error.  A
\* step that is a committing toggle negates isActive, whatever its value,
\* and changes nothing else, so that a second toggle restores the election.
C23_ToggleOutcome ==
    \A p \in Principals, e \in ElectionIdSpace :
        toggleElectionStatusOutcome(p, e) =
            IF p \notin roles[ELECTION_CREATOR_ROLE] THEN CreatorError
            ELSE IF e \notin ExistingElections THEN "ElectionNotFound"
            ELSE OK

C23_ToggleNegates ==
    \A p \in roles[ELECTION_CREATOR_ROLE], e \in ExistingElections :
        toggleElectionStatus(p, e) =>
            /\ elections' = [elections EXCEPT
                                ![e].isActive = ~elections[e].isActive]
            /\ [elections' EXCEPT ![e].isActive = ~elections'[e].isActive]
                   = elections
            /\ UNCHANGED << now, paused, roles, isVoterRegistered,
                            voterRegistrationTime, electionIds, candidateIds,
                            candidates, voterProfiles >>

C23_ToggleByCreator ==
    /\ []C23_ToggleOutcome
    /\ [][C23_ToggleNegates]_vars

\* An election that was deactivated exists while one principal holds
\* ADMIN_ROLE without ELECTION_CREATOR_ROLE and another holds
\* ELECTION_CREATOR_ROLE.
C23_Witness ==
    \E a, c \in Principals :
        /\ a \in roles[ADMIN_ROLE] \ roles[ELECTION_CREATOR_ROLE]
        /\ c \in roles[ELECTION_CREATOR_ROLE]
        /\ electionIds = 1 /\ ~elections[1].isActive
        /\ toggleElectionStatusOutcome(c, 1) = OK

\* C24: endElection.  In every reachable state, endElection on an existing
\* election whose isActive is false commits for nobody, emits nothing, and
\* fails with 'Election already ended' for an election creator; on an
\* active one it commits for every election creator and emits one
\* ElectionEnded carrying the election, its totalVotes and the caller.  A
\* step that is an endElection on an inactive election changes nothing, and
\* one on an active election by an election creator sets isActive to false
\* and leaves totalVotes, votes, ballots, schedule and everything else
\* unchanged.
C24_EndOutcome ==
    \A e \in ExistingElections, p \in Principals :
        IF ~elections[e].isActive
        THEN /\ endElectionOutcome(p, e) # OK
             /\ endElectionEvents(p, e) = <<>>
             /\ p \in roles[ELECTION_CREATOR_ROLE] =>
                   endElectionOutcome(p, e)
                       = "VotingContract: Election already ended"
        ELSE p \in roles[ELECTION_CREATOR_ROLE] =>
                /\ endElectionOutcome(p, e) = OK
                /\ endElectionEvents(p, e) =
                       << [ name |-> "ElectionEnded", electionId |-> e,
                            totalVotes |-> elections[e].totalVotes,
                            endedBy |-> p ] >>

C24_EndWrites ==
    \A e \in ExistingElections, p \in Principals :
        endElection(p, e) =>
            IF ~elections[e].isActive THEN UNCHANGED vars
            ELSE p \in roles[ELECTION_CREATOR_ROLE] =>
                    /\ ~elections'[e].isActive
                    /\ [elections' EXCEPT ![e].isActive = TRUE] = elections
                    /\ UNCHANGED << now, paused, roles, isVoterRegistered,
                                    voterRegistrationTime, electionIds,
                                    candidateIds, candidates, voterProfiles >>

C24_EndElection ==
    /\ []C24_EndOutcome
    /\ [][C24_EndWrites]_vars

\* An election that received a vote is inactive, and an election creator's
\* endElection on it is refused as already ended.
C24_Witness ==
    \E p \in roles[ELECTION_CREATOR_ROLE] :
        /\ electionIds = 1
        /\ ~elections[1].isActive
        /\ elections[1].totalVotes > 0
        /\ endElectionOutcome(p, 1) = "VotingContract: Election already ended"

\* C25: getElectionResults.  In every reachable state the call fails with
\* ElectionNotFound for id 0 and for every id above the election count, and
\* for an existing election it returns the roster and as many counts as the
\* roster has entries.  A created election starts with every count 0, and
\* in every step count i of an existing election grows by one when the step
\* is a committing castVote in that election for roster entry i (a voter's
\* profile gains the election and the candidate's tally one vote) and stays
\* as it is otherwise; the roster returned never changes.
C25_ResultsShape ==
    \A e \in ElectionIdSpace :
        IF e = 0 \/ e > getTotalElections
        THEN getElectionResults(e) = "ElectionNotFound"
        ELSE /\ getElectionResults(e).candidateIds = elections[e].candidateIds
             /\ DOMAIN getElectionResults(e).voteCounts
                    = DOMAIN elections[e].candidateIds

C25_VoteFor(e, c) ==
    /\ \E p \in Principals :
          /\ ~voterProfiles[p].electionsVotedIn[e]
          /\ voterProfiles'[p].electionsVotedIn[e]
    /\ candidates'[c].voteCount = candidates[c].voteCount + 1

C25_ResultsStep ==
    /\ \A e \in ExistingElections :
          /\ getElectionResults(e)'.candidateIds
                 = getElectionResults(e).candidateIds
          /\ \A i \in DOMAIN getElectionResults(e).voteCounts :
                getElectionResults(e)'.voteCounts[i] =
                    getElectionResults(e).voteCounts[i]
                    + (IF C25_VoteFor(e, getElectionResults(e).candidateIds[i])
                       THEN 1 ELSE 0)
    /\ \A k \in ElectionIdSpace :
          (k = electionIds + 1 /\ electionIds' = k) =>
              \A i \in DOMAIN getElectionResults(k)'.voteCounts :
                  getElectionResults(k)'.voteCounts[i] = 0

C25_Results ==
    /\ []C25_ResultsShape
    /\ [][C25_ResultsStep]_vars

\* Two elections share candidate 1: it received one vote in each, two in
\* all, and each election reports its own single vote.
C25_Witness ==
    /\ electionIds = 2
    /\ candidates[1].voteCount = 2
    /\ \E i \in DOMAIN getElectionResults(1).voteCounts :
          /\ getElectionResults(1).candidateIds[i] = 1
          /\ getElectionResults(1).voteCounts[i] = 1
    /\ \E i \in DOMAIN getElectionResults(2).voteCounts :
          /\ getElectionResults(2).candidateIds[i] = 1
          /\ getElectionResults(2).voteCounts[i] = 1

\* The VoteCast events of the VotingSystem log naming a voter, or an
\* election and a candidate.
VS_VotesBy(p) ==
    SumOver([ ce \in CandidateIdSpace \X ElectionIdSpace |->
                CopiesIn(VS_VoteCast(p, ce[1], ce[2]), VS_logs) ],
            CandidateIdSpace \X ElectionIdSpace)

VS_VotesIn(e, c) ==
    SumOver([ p \in Principals |-> CopiesIn(VS_VoteCast(p, c, e), VS_logs) ],
            Principals)

\* C26: one vote per voter in the simple VotingSystem.  In every reachable
\* state each principal has at most one VoteCast in the log, over all the
\* elections together, and exactly one when marked as voted; a vote() by a
\* principal marked as voted commits for no candidate and no election, and
\* fails with 'Voter has already voted' when the election is open, the
\* candidate exists and the contract is not paused; each candidate's
\* voteCount is the number of voters whose single vote names it and
\* totalVotes the number of voters marked as voted.  In every step a set
\* mark stays set and the tallies change only when a mark is newly set.
C26_OneVote ==
    /\ \A p \in Principals :
          /\ VS_VotesBy(p) = (IF VS_voters[p].voted THEN 1 ELSE 0)
          /\ VS_voters[p].voted =>
                \A c \in CandidateIdSpace, e \in ElectionIdSpace :
                    /\ voteOutcome(p, c, e) # OK
                    /\ ( /\ VS_voters[p].authorized
                         /\ VS_elections[e].exists /\ VS_elections[e].active
                         /\ VS_elections[e].startTime <= now
                         /\ now <= VS_elections[e].endTime
                         /\ VS_candidates[c].exists
                         /\ ~VS_paused )
                       => voteOutcome(p, c, e) = "Voter has already voted"
    /\ \A c \in 1..VS_candidatesCount :
          VS_candidates[c].voteCount =
              Cardinality({ p \in Principals :
                              VS_voters[p].voted /\ VS_voters[p].vote = c })
    /\ VS_totalVotes = Cardinality({ p \in Principals : VS_voters[p].voted })

C26_VotedForGood ==
    /\ \A p \in Principals : VS_voters[p].voted => VS_voters'[p] = VS_voters[p]
    /\ (\A p \in Principals : VS_voters'[p].voted = VS_voters[p].voted)
          => /\ UNCHANGED << VS_totalVotes, VS_logs >>
             /\ \A c \in CandidateIdSpace :
                   VS_candidates'[c].voteCount = VS_candidates[c].voteCount

C26_VoteAtMostOnce ==
    /\ []C26_OneVote
    /\ [][C26_VotedForGood]_vars

\* A voter who voted in the first election is refused, as having voted, in
\* the second, open election.
C26_Witness ==
    \E p \in Principals :
        /\ VS_voters[p].voted
        /\ CopiesIn(VS_VoteCast(p, 1, 1), VS_logs) = 1
        /\ voteOutcome(p, 2, 2) = "Voter has already voted"

\* C27 as stated: getVotingResults(electionId) reports, for every candidate,
\* the number of votes cast for it in that election.
C27_PerElectionResults ==
    \A e \in ElectionIdSpace :
        VS_elections[e].exists =>
            \A i \in DOMAIN getVotingResults(e) :
                getVotingResults(e)[i].voteCount = VS_VotesIn(e, i)

LifecycleErrors == {"ElectionNotActive", "ElectionNotStarted", "ElectionEnded"}
NotInRosterError == "VotingContract: Candidate not in this election"

\* C28: when castVote succeeds and what it does.  In every reachable state
\* castVote(p, e, c) commits exactly when p holds the voter role, e exists,
\* is active with startTime <= now <= endTime, c exists and is in e's
\* roster, p has not voted in e and the contract is not paused, and then it
\* emits exactly one VoteCast(p, e, c, now).  A step that is such a call
\* marks p as having voted in e and adds exactly 1 to e's votes for c, to
\* e's totalVotes and to c's voteCount, leaving every other marker, vote,
\* total and tally as it was.
C28_SucceedsExactlyWhen ==
    \A p \in Principals, e \in ElectionIdSpace, c \in CandidateIdSpace :
        /\ castVoteOutcome(p, e, c) = OK <=>
              /\ Eligible(p, e, c)
              /\ elections[e].startTime <= now
              /\ now <= elections[e].endTime
        /\ castVoteOutcome(p, e, c) = OK =>
              castVoteEvents(p, e, c) =
                  << [ name |-> "VoteCast", voter |-> p, electionId |-> e,
                       candidateId |-> c, timestamp |-> now ] >>

C28_SuccessWrites ==
    \A p \in Principals, e \in ExistingElections, c \in ExistingCandidates :
        (Eligible(p, e, c) /\ Open(e) /\ castVote(p, e, c)) =>
            /\ elections'[e].hasVoted =
                   [elections[e].hasVoted EXCEPT ![p] = TRUE]
            /\ elections'[e].votes =
                   [elections[e].votes EXCEPT ![c] = elections[e].votes[c] + 1]
            /\ elections'[e].totalVotes = elections[e].totalVotes + 1
            /\ candidates'[c].voteCount = candidates[c].voteCount + 1
            /\ \A e2 \in ElectionIdSpace \ {e} : elections'[e2] = elections[e2]
            /\ \A c2 \in CandidateIdSpace \ {c} : candidates'[c2] = candidates[c2]

C28_CastVote ==
    /\ []C28_SucceedsExactlyWhen
    /\ [][C28_SuccessWrites]_vars

\* One voter has voted in the election, which is still open, and the
\* contract is paused: the first vote was accepted, and a second eligible
\* voter is refused for the pause flag alone.
C28_Witness ==
    /\ paused
    /\ electionIds = 1 /\ Open(1) /\ elections[1].totalVotes = 1
    /\ \E p \in roles[VOTER_ROLE], c \in RosterOf(1) :
          /\ ~elections[1].hasVoted[p]
          /\ candidates[c].exists
          /\ castVoteOutcome(p, 1, c) = "Pausable: paused"

\* C29 as stated: a voter who has voted in an open election and names an
\* existing candidate outside its roster gets the roster error, and a voter
\* calling on an election that is not open with a non-existent candidate
\* gets a lifecycle error.
C29_SpecOrder ==
    \A p \in roles[VOTER_ROLE], e \in ExistingElections,
       c \in CandidateIdSpace :
        /\ (elections[e].hasVoted[p] /\ Open(e) /\ candidates[c].exists
               /\ c \notin RosterOf(e))
              => castVoteOutcome(p, e, c) = NotInRosterError
        /\ (~Open(e) /\ ~candidates[c].exists)
              => castVoteOutcome(p, e, c) \in LifecycleErrors

\* C29 as amended: castVote reports the first failing check in the order
\* caller role, election existence, candidate existence, lifecycle (active
\* flag, start, end), already voted, pause flag, roster membership.  In
\* particular a voter who has voted in an open election and names an
\* existing candidate outside its roster gets VoterAlreadyVoted, and a
\* voter calling on an election that is not open with a non-existent
\* candidate gets CandidateNotFound.
C29_CodeOrder ==
    \A p \in Principals, e \in ElectionIdSpace, c \in CandidateIdSpace :
        /\ castVoteOutcome(p, e, c) =
              IF p \notin roles[VOTER_ROLE]
                  THEN "AccessControl: Must have voter role"
              ELSE IF e \notin ExistingElections THEN "ElectionNotFound"
              ELSE IF c \notin ExistingCandidates THEN "CandidateNotFound"
              ELSE IF ~elections[e].isActive THEN "ElectionNotActive"
              ELSE IF now < elections[e].startTime THEN "ElectionNotStarted"
              ELSE IF now > elections[e].endTime THEN "ElectionEnded"
              ELSE IF p \in Ballots(e) THEN "VoterAlreadyVoted"
              ELSE IF paused THEN "Pausable: paused"
              ELSE IF c \notin RosterOf(e) THEN NotInRosterError
              ELSE OK
        /\ (p \in roles[VOTER_ROLE] /\ e \in ExistingElections) =>
              /\ (p \in Ballots(e) /\ Open(e) /\ c \in ExistingCandidates
                     /\ c \notin RosterOf(e))
                    => castVoteOutcome(p, e, c) = "VoterAlreadyVoted"
              /\ (~Open(e) /\ c \notin ExistingCandidates)
                    => castVoteOutcome(p, e, c) = "CandidateNotFound"

\* A voter has voted in an open election whose roster leaves out an
\* existing candidate, and another election-and-candidate pair fails both
\* the lifecycle and the candidate existence checks.
C29_Witness ==
    /\ \E p \in roles[VOTER_ROLE], e \in ExistingElections,
          c \in ExistingCandidates :
          /\ p \in Ballots(e) /\ Open(e) /\ c \notin RosterOf(e)
          /\ castVoteOutcome(p, e, c) = "VoterAlreadyVoted"
    /\ \E p \in roles[VOTER_ROLE], e \in ExistingElections,
          c \in CandidateIdSpace \ ExistingCandidates :
          /\ ~Open(e)
          /\ castVoteOutcome(p, e, c) = "CandidateNotFound"

\* C30 as stated: while the contract is paused every castVote fails with
\* the paused error, whoever calls and whatever the election and candidate.
C30_PausedErrorFirst ==
    paused =>
        \A p \in Principals, e \in ElectionIdSpace, c \in CandidateIdSpace :
            castVoteOutcome(p, e, c) = "Pausable: paused"

\* C30 as amended: while the contract is paused no castVote commits, and the
\* paused error is the outcome exactly when the caller holds the voter
\* role, the election and the candidate exist, the election is open and the
\* caller has not voted in it; a call failing one of those checks gets that
\* check's error: the role error without the voter role, ElectionNotFound
\* or CandidateNotFound for a missing election or candidate, a lifecycle
\* error when the election is not open, VoterAlreadyVoted after a vote.
C30_PausedOutcome ==
    paused =>
        \A p \in Principals, e \in ElectionIdSpace, c \in CandidateIdSpace :
            /\ castVoteOutcome(p, e, c) # OK
            /\ castVoteEvents(p, e, c) = <<>>
            /\ castVoteOutcome(p, e, c) = "Pausable: paused" <=>
                  /\ p \in roles[VOTER_ROLE]
                  /\ e \in ExistingElections /\ c \in ExistingCandidates
                  /\ Open(e)
                  /\ p \notin Ballots(e)
            /\ p \notin roles[VOTER_ROLE] =>
                  castVoteOutcome(p, e, c)
                      = "AccessControl: Must have voter role"
            /\ (p \in roles[VOTER_ROLE] /\ e \notin ExistingElections) =>
                  castVoteOutcome(p, e, c) = "ElectionNotFound"
            /\ (p \in roles[VOTER_ROLE] /\ e \in ExistingElections
                   /\ c \notin ExistingCandidates) =>
                  castVoteOutcome(p, e, c) = "CandidateNotFound"
            /\ (p \in roles[VOTER_ROLE] /\ e \in ExistingElections
                   /\ c \in ExistingCandidates /\ ~Open(e)) =>
                  castVoteOutcome(p, e, c) \in LifecycleErrors
            /\ (p \in roles[VOTER_ROLE] /\ e \in ExistingElections
                   /\ c \in ExistingCandidates /\ Open(e)
                   /\ p \in Ballots(e)) =>
                  castVoteOutcome(p, e, c) = "VoterAlreadyVoted"

\* The contract is paused while the election is open: one voter has voted
\* and is told so, another has not and is told of the pause, and a caller
\* without the voter role is told of the role.
C30_Witness ==
    /\ paused
    /\ electionIds = 1 /\ Open(1)
    /\ \E p, q, r \in Principals, c \in ExistingCandidates :
          /\ castVoteOutcome(p, 1, c) = "VoterAlreadyVoted"
          /\ castVoteOutcome(q, 1, c) = "Pausable: paused"
          /\ castVoteOutcome(r, 1, c) = "AccessControl: Must have voter role"

\* C31: the lifecycle errors of castVote.  In every reachable state, for a
\* holder of the voter role, an existing election and an existing
\* candidate, castVote fails with ElectionNotActive whenever isActive is
\* false, whatever the time; otherwise with ElectionNotStarted when
\* now < startTime; otherwise with ElectionEnded when now > endTime.
C31_LifecycleErrors ==
    \A p \in roles[VOTER_ROLE], e \in ExistingElections,
       c \in ExistingCandidates :
        /\ ~elections[e].isActive =>
              castVoteOutcome(p, e, c) = "ElectionNotActive"
        /\ (elections[e].isActive /\ now < elections[e].startTime) =>
              castVoteOutcome(p, e, c) = "ElectionNotStarted"
        /\ (elections[e].isActive /\ now >= elections[e].startTime
               /\ now > elections[e].endTime) =>
              castVoteOutcome(p, e, c) = "ElectionEnded"

\* Of two elections one was deactivated before its start and the other
\* is still active and not started: a voter is told ElectionNotActive for
\* the first and ElectionNotStarted for the second.
C31_Witness ==
    \E p \in roles[VOTER_ROLE], c \in ExistingCandidates :
        /\ electionIds = 2
        /\ now < elections[1].startTime /\ ~elections[1].isActive
        /\ castVoteOutcome(p, 1, c) = "ElectionNotActive"
        /\ castVoteOutcome(p, 2, c) = "ElectionNotStarted"

\* What a transaction other than a committed castVote changes: the clock,
\* the pause flag, the roles, the registrations, the counters, or a stored
\* field of an election or a candidate that is not ballot data.
C32_OtherThanBallotChanged ==
    \/ now' # now
    \/ paused' # paused
    \/ roles' # roles
    \/ isVoterRegistered' # isVoterRegistered
    \/ voterRegistrationTime' # voterRegistrationTime
    \/ electionIds' # electionIds
    \/ candidateIds' # candidateIds
    \/ \E e \in ElectionIdSpace :
          [elections'[e] EXCEPT !.hasVoted = elections[e].hasVoted,
                                !.votes = elections[e].votes,
                                !.totalVotes = elections[e].totalVotes]
              # elections[e]
    \/ \E c \in CandidateIdSpace :
          [candidates'[c] EXCEPT !.voteCount = candidates[c].voteCount]
              # candidates[c]

C32_BallotDataKept ==
    /\ \A e \in ElectionIdSpace : ~BallotsChanged(e)
    /\ \A c \in CandidateIdSpace :
          candidates'[c].voteCount = candidates[c].voteCount

\* C32: only castVote touches ballot state.  Every step that changes
\* anything a call other than castVote writes (registration, roles, the
\* catalogue, the creation, ending or toggling of an election, the pause
\* flag, the clock) leaves every election's hasVoted, votes and totalVotes
\* and every candidate's voteCount unchanged; so does every step that is an
\* endElection, a toggleElectionStatus, a pause or an unpause; and in no
\* step does a marker get cleared or a counter decrease.
C32_OnlyCastVote ==
    /\ C32_OtherThanBallotChanged => C32_BallotDataKept
    /\ \A p \in Principals :
          /\ \A e \in ExistingElections :
                (endElection(p, e) \/ toggleElectionStatus(p, e))
                    => C32_BallotDataKept
          /\ (pause(p) \/ unpause(p)) => C32_BallotDataKept
    /\ \A e \in ElectionIdSpace :
          /\ \A p \in Principals :
                elections[e].hasVoted[p] => elections'[e].hasVoted[p]
          /\ \A c \in CandidateIdSpace :
                elections'[e].votes[c] >= elections[e].votes[c]
          /\ elections'[e].totalVotes >= elections[e].totalVotes
    /\ \A c \in CandidateIdSpace :
          candidates'[c].voteCount >= candidates[c].voteCount

C32_BallotFrame == [][C32_OnlyCastVote]_vars

\* An election holding a vote has been deactivated while the contract is
\* paused and the deployer no longer holds the election creator role: the
\* other operations ran on ballot data that is still there.
C32_Witness ==
    /\ electionIds = 1
    /\ elections[1].totalVotes >= 1
    /\ \E c \in CandidateIdSpace :
          elections[1].votes[c] >= 1 /\ candidates[c].voteCount >= 1
    /\ ~elections[1].isActive
    /\ paused
    /\ deployer \notin roles[ELECTION_CREATOR_ROLE]

\* C33: what is fixed at creation.  In every step an existing election
\* keeps its id, roster, startTime, endTime, title, description, creator
\* and createdAt, and an existing candidate its id, name, description,
\* addedBy and addedAt, and stays existing: only isActive, the vote
\* counters and the ballot markers of a stored election or candidate change.
C33_FixedFields ==
    /\ \A e \in ExistingElections :
          [elections'[e] EXCEPT !.isActive = elections[e].isActive,
                                !.hasVoted = elections[e].hasVoted,
                                !.votes = elections[e].votes,
                                !.totalVotes = elections[e].totalVotes]
              = elections[e]
    /\ \A c \in ExistingCandidates :
          [candidates'[c] EXCEPT !.voteCount = candidates[c].voteCount]
              = candidates[c]

C33_FixedAtCreation == [][C33_FixedFields]_vars

\* Two elections and two candidates exist; the first election received a
\* vote and was deactivated afterwards, and its stored schedule, roster and
\* creator are those of its creation.
C33_Witness ==
    /\ electionIds = 2 /\ candidateIds = 2
    /\ elections[1].totalVotes >= 1
    /\ ~elections[1].isActive
    /\ elections[1].createdAt = 1 /\ elections[1].creator = deployer
    /\ elections[1].startTime < elections[1].endTime
    /\ \E c \in ExistingCandidates : candidates[c].voteCount >= 1

\* C35 as stated: the zero address is never registered.  In every reachable
\* state registerVoter(address(0)) commits for no caller, and neither does a
\* batchRegisterVoters whose batch holds address(0) after a valid entry.
C35_ZeroRejected ==
    \A sender \in Principals :
        /\ registerVoterOutcome(sender, ZeroAddress) # OK
        /\ batchRegisterVotersOutcome(sender, << "bob", ZeroAddress >>) # OK

\* C36 as stated: for every existing election the counts returned by
\* getElectionResults add up to the election's totalVotes.
C36_ResultsAddUp ==
    \A e \in ExistingElections :
        SumOver(getElectionResults(e).voteCounts,
                DOMAIN getElectionResults(e).voteCounts)
            = elections[e].totalVotes

\* C37 as stated: every ballot marker belongs to a principal recorded as
\* registered.
C37_BallotsOfRegistered ==
    \A e \in ExistingElections, p \in Principals :
        elections[e].hasVoted[p] => isVoterRegistered[p]

\* C38: the voter profile mirrors the ballot markers.  In every reachable
\* state and for every principal, totalVotesCast is the number of elections
\* in which the principal is marked as having voted, and electionsVotedIn
\* is true for exactly those elections.
C38_ProfileConsistent ==
    \A p \in Principals :
        /\ voterProfiles[p].totalVotesCast =
              Cardinality({ e \in ElectionIdSpace : elections[e].hasVoted[p] })
        /\ \A e \in ElectionIdSpace :
              voterProfiles[p].electionsVotedIn[e] <=> elections[e].hasVoted[p]

\* One principal has voted in both elections and another in one only.
C38_Witness ==
    \E p, q \in Principals :
        /\ elections[1].hasVoted[p] /\ elections[2].hasVoted[p]
        /\ voterProfiles[p].totalVotesCast = 2
        /\ elections[1].hasVoted[q] /\ ~elections[2].hasVoted[q]
        /\ voterProfiles[q].totalVotesCast = 1

\* The ballot tables, and what they are after vote (p, e, c) is recorded.
C39_Tables ==
    [ elections |-> elections, candidates |-> candidates,
      voterProfiles |-> voterProfiles ]

C39_AfterVote(t, p, e, c) ==
    [ elections |->
          [t.elections EXCEPT ![e].hasVoted[p] = TRUE,
                              ![e].votes[c] = @ + 1,
                              ![e].totalVotes = @ + 1],
      candidates |-> [t.candidates EXCEPT ![c].voteCount = @ + 1],
      voterProfiles |->
          [t.voterProfiles EXCEPT ![p].totalVotesCast = @ + 1,
                                  ![p].electionsVotedIn[e] = TRUE] ]

\* C39: votes by different voters commute.  In every step that is a
\* committing castVote(e1, c1) by p, the tables become those after that
\* vote, and every castVote(e2, c2) by another principal q that would have
\* committed before the step still commits after it, at the same time; the
\* two votes recorded in either order give the same hasVoted, votes,
\* totalVotes, voteCount and voter profiles.
C39_VotesCommuteStep ==
    \A p \in Principals, e1 \in ExistingElections,
       c1 \in ExistingCandidates :
        (castVoteOutcome(p, e1, c1) = OK /\ castVote(p, e1, c1)) =>
            /\ C39_Tables' = C39_AfterVote(C39_Tables, p, e1, c1)
            /\ \A q \in Principals \ {p}, e2 \in ExistingElections,
                  c2 \in ExistingCandidates :
                  castVoteOutcome(q, e2, c2) = OK =>
                      /\ castVoteOutcome(q, e2, c2)' = OK
                      /\ C39_AfterVote(C39_Tables', q, e2, c2) =
                             C39_AfterVote(
                                 C39_AfterVote(C39_Tables, q, e2, c2),
                                 p, e1, c1)

C39_VotesCommute == [][C39_VotesCommuteStep]_vars

\* Two voters have voted for the same candidate in the same election, and
\* one of them in the other election as well.
C39_Witness ==
    \E p, q \in Principals, c \in ExistingCandidates :
        /\ p # q
        /\ elections[1].hasVoted[p] /\ elections[1].hasVoted[q]
        /\ elections[1].votes[c] = 2 /\ elections[1].totalVotes = 2
        /\ elections[2].hasVoted[p] /\ elections[2].totalVotes = 1
        /\ candidates[c].voteCount >= 2

\* C40: the last-administrator guard of revokeAdminRole never fires.  In
\* every reachable state, a call whose caller is an administrator and whose
\* target is another administrator, not the zero address, finds at least
\* two administrators and commits, and no call fails with 'cannot revoke
\* last admin'.  A step that is a committing revokeAdminRole removes the
\* target alone and leaves at least one administrator, the caller.
C40_GuardNeverFails ==
    \A p \in Principals, a \in Accounts :
        /\ revokeAdminRoleOutcome(p, a)
              # "VotingContract: cannot revoke last admin"
        /\ (p \in roles[ADMIN_ROLE] /\ a \in roles[ADMIN_ROLE] /\ a # p
               /\ a # ZeroAddress) =>
              /\ getAdminCount >= 2
              /\ revokeAdminRoleOutcome(p, a) = OK

C40_RevocationLeavesAnAdmin ==
    \A p \in Principals, a \in Accounts :
        (revokeAdminRoleOutcome(p, a) = OK /\ revokeAdminRole(p, a)) =>
            /\ roles'[ADMIN_ROLE] = roles[ADMIN_ROLE] \ {a}
            /\ p \in roles'[ADMIN_ROLE]
            /\ getAdminCount' = getAdminCount - 1
            /\ getAdminCount' >= 1

C40_LastAdminGuardDead ==
    /\ []C40_GuardNeverFails
    /\ [][C40_RevocationLeavesAnAdmin]_vars

\* Exactly two administrators, one of whom may revoke the other.
C40_Witness ==
    \E p, a \in Principals :
        /\ p # a
        /\ roles[ADMIN_ROLE] = {p, a}
        /\ getAdminCount = 2
        /\ revokeAdminRoleOutcome(p, a) = OK

\* C34: the total carried by an ElectionEnded event is final.  In every
\* reachable state, every election for which ElectionEnded was emitted
\* with total n has totalVotes equal to n, whatever was called since.
C34_TotalIsFinal ==
    \A event \in ElectionEndedLog :
        elections[event[1]].totalVotes = event[2]

====
